---- MODULE Spec2Model ----
(***************************************************************************)
(* Model of the cell-balancing compliance check of                         *)
(* "TRC TEST CASES/BMS_Balancing/BMS_Balancing.py".                        *)
(*                                                                         *)
(* Time is counted in ticks of 0.1 ms, the finest resolution parse_trc_fast*)
(* accepts (a 4-digit fraction of a second).  The row times of the source  *)
(* are binary64 values; the model takes them as the exact tick counts, so  *)
(* a difference of two row times is the exact difference (the rounding of  *)
(* a binary64 subtraction is not modelled).                                *)
(*                                                                         *)
(* Row indices are 0-based as in the source; the sequences passfail and    *)
(* remark hold row i at position i + 1.                                    *)
(***************************************************************************)
EXTENDS Integers, Sequences, FiniteSets, TLC

----------------------------------------------------------------------------
(* Bounds of the model *)

\* number of rows of the analysed table fed to add_pass_fail_fast
MaxRows == 3
\* number of frames of the trace handed to decode_frames_fast
MaxFrames == 3
\* number of rows of the forward-filled table handed to run
MaxTableRows == 3
\* number of lines of the trace file
MaxLines == 3

----------------------------------------------------------------------------
(* CONFIG (module constants of the source), in ticks of 0.1 ms *)

PENDING_TIME_SEC == 4000
MIXED_SEQUENCE_GRACE_SEC == 10000
ODD_EVEN_MAX_ON_SEC == 9000
REST_COMBINED_MAX_SEC == 12500
REST_NORMAL_MAX_SEC == 12500
TIME_GAP_RESET_SEC == 50000

\* Python's None for a time or an index that is not set
None == -1
\* the NaN pandas keeps where a column has no value for a row
NaN == -2

\* the steps of time between two consecutive rows of the sorted table: one
\* tick, the windows themselves, and a gap beyond the reset threshold
Deltas == {1, PENDING_TIME_SEC, ODD_EVEN_MAX_ON_SEC, TIME_GAP_RESET_SEC + 1}
\* the steps around the reset threshold
GapDeltas == {1, PENDING_TIME_SEC, TIME_GAP_RESET_SEC, TIME_GAP_RESET_SEC + 1}

----------------------------------------------------------------------------
(* Texts.  A violation reason is a record: kind is the fixed wording, num  *)
(* the number formatted into it (the grace with one decimal, a duration    *)
(* with three), desc the mismatch description.  A description is the list  *)
(* of its ", "-joined parts, each a label and the printed cell list (cell  *)
(* lists are printed sorted and duplicate-free, so a set stands for one).  *)
(* A remark is the list of its " | "-joined texts.                         *)

Text(kind, num, desc) == [kind |-> kind, num |-> num, desc |-> desc]

OK == Text("OK", 0, <<>>)

\* f"{duration:.3f}": a duration in ticks of 0.1 ms printed in whole ms
Fmt3f(duration) == (duration + 5) \div 10

\* f"{grace:.1f}": the grace printed in tenths of a second
Fmt1f(grace) == (grace + 500) \div 1000

is_odd(c) == c % 2 = 1
is_even(c) == c % 2 = 0

Max0(d) == IF d > 0 THEN d ELSE 0

----------------------------------------------------------------------------
(* mark_fail(i, reason) on the pair of lists <<passfail, remark>> *)

\* "reason not in remark[i]": the texts of distinct violations never
\* contain one another, so the substring test is membership among the parts
InRemark(reason, rm) == \E k \in 1..Len(rm) : rm[k] = reason

\* a mark_fail that appends the first reason to the "OK" of the row
mark_fail_KeepOK(v, i, reason) ==
    IF i < 0 \/ i >= Len(v.passfail) THEN v
    ELSE IF ~InRemark(reason, v.remark[i + 1])
         THEN [passfail |-> [v.passfail EXCEPT ![i + 1] = "FAIL"],
               remark   |-> [v.remark EXCEPT ![i + 1] = Append(@, reason)]]
         ELSE v

\* a mark_fail that replaces the reason of a row already FAIL
mark_fail_Overwrite(v, i, reason) ==
    IF i < 0 \/ i >= Len(v.passfail) THEN v
    ELSE [passfail |-> [v.passfail EXCEPT ![i + 1] = "FAIL"],
          remark   |-> [v.remark EXCEPT ![i + 1] = <<reason>>]]

mark_fail(v, i, reason) ==
    IF i < 0 \/ i >= Len(v.passfail) THEN v
    ELSE IF v.passfail[i + 1] = "PASS"
         THEN [passfail |-> [v.passfail EXCEPT ![i + 1] = "FAIL"],
               remark   |-> [v.remark EXCEPT ![i + 1] = <<reason>>]]
         ELSE IF ~InRemark(reason, v.remark[i + 1])
              THEN [v EXCEPT !.remark[i + 1] = Append(@, reason)]
              ELSE v

----------------------------------------------------------------------------
(* The loop state of add_pass_fail_fast: the two output lists and the      *)
(* closure variables, as a record so that an evaluation can be replayed.   *)

InitEval ==
    [passfail |-> <<>>, remark |-> <<>>,
     pending_activation_start_time |-> None,
     mismatch_start_time |-> None,
     mismatch_active |-> FALSE,
     mismatch_reason_cached |-> <<>>,
     current_seg_state |-> "None",
     current_seg_start_idx |-> None,
     current_seg_start_time |-> None,
     seg_req_odd |-> FALSE,
     seg_req_even |-> FALSE,
     prev_t |-> None]

Verdicts(s) == [passfail |-> s.passfail, remark |-> s.remark]

Marked(s, i, reason) ==
    LET v == mark_fail(Verdicts(s), i, reason)
    IN  [s EXCEPT !.passfail = v.passfail, !.remark = v.remark]

\* a close that leaves the parity accumulators as they are
ClearSegment_KeepFlags(s) ==
    [s EXCEPT !.current_seg_state = "None",
              !.current_seg_start_idx = None,
              !.current_seg_start_time = None]

ClearSegment(s) ==
    [s EXCEPT !.current_seg_state = "None",
              !.current_seg_start_idx = None,
              !.current_seg_start_time = None,
              !.seg_req_odd = FALSE,
              !.seg_req_even = FALSE]

\* an ON bound that already fails at the boundary
OnTooLong_AtBoundary(duration) == duration >= ODD_EVEN_MAX_ON_SEC

\* the comparisons of a measured duration with the bound of its class
OnTooLong(duration) == duration > ODD_EVEN_MAX_ON_SEC
\* a longer REST allowed when both parities are required
RestCombinedTooLong_Longer(duration) == duration > 2 * REST_COMBINED_MAX_SEC

RestCombinedTooLong(duration) == duration > REST_COMBINED_MAX_SEC
RestNormalTooLong(duration) == duration > REST_NORMAL_MAX_SEC

\* the violation finalize_segment emits for a segment, <<>> when none
SegmentViolation(state, req_odd, req_even, duration) ==
    IF state = "ODD" /\ OnTooLong(duration)
    THEN <<Text("ODD balancing ON too long", Fmt3f(duration), <<>>)>>
    ELSE IF state = "EVEN" /\ OnTooLong(duration)
    THEN <<Text("EVEN balancing ON too long", Fmt3f(duration), <<>>)>>
    ELSE IF state = "REST"
    THEN IF req_odd /\ req_even
         THEN IF RestCombinedTooLong(duration)
              THEN <<Text("REST (odd/even sequence) too long", Fmt3f(duration), <<>>)>>
              ELSE <<>>
         ELSE IF RestNormalTooLong(duration)
              THEN <<Text("REST (normal) too long", Fmt3f(duration), <<>>)>>
              ELSE <<>>
    ELSE <<>>

\* a duration measured up to the row after end_idx, when there is one
SegmentDuration_ToClosingRow(s, end_idx, Time) ==
    LET start_t == s.current_seg_start_time
        end_t   == IF 0 <= end_idx /\ end_idx + 1 < Len(Time)
                   THEN Time[end_idx + 2]
                   ELSE IF 0 <= end_idx /\ end_idx < Len(Time)
                        THEN Time[end_idx + 1] ELSE start_t
    IN  Max0(end_t - start_t)

\* duration = max(0.0, end_t - start_t); Time is the table's Time column
SegmentDuration(s, end_idx, Time) ==
    LET start_t == s.current_seg_start_time
        end_t   == IF 0 <= end_idx /\ end_idx < Len(Time)
                   THEN Time[end_idx + 1] ELSE start_t
    IN  Max0(end_t - start_t)

\* a finalize_segment that marks the row after end_idx
finalize_segment_ClosingRow(s, end_idx, Time) ==
    IF s.current_seg_state = "None" \/ s.current_seg_start_idx = None THEN s
    ELSE IF end_idx < s.current_seg_start_idx THEN s
    ELSE LET viol == SegmentViolation(s.current_seg_state, s.seg_req_odd,
                                      s.seg_req_even,
                                      SegmentDuration(s, end_idx, Time))
             m == IF viol = <<>> THEN s ELSE Marked(s, end_idx + 1, viol[1])
         IN  ClearSegment(m)

finalize_segment(s, end_idx, Time) ==
    IF s.current_seg_state = "None" \/ s.current_seg_start_idx = None THEN s
    ELSE IF end_idx < s.current_seg_start_idx THEN s
    ELSE LET viol == SegmentViolation(s.current_seg_state, s.seg_req_odd,
                                      s.seg_req_even,
                                      SegmentDuration(s, end_idx, Time))
             m == IF viol = <<>> THEN s ELSE Marked(s, end_idx, viol[1])
         IN  ClearSegment(m)

----------------------------------------------------------------------------
(* One iteration of the loop of add_pass_fail_fast, in the source's order  *)

\* the parse of Flag_Balancing_Active; flag_txt is str(raw).strip().lower()
flag_active_of(flag_txt) ==
    IF flag_txt \in {"active", "1", "true", "yes"} THEN TRUE
    ELSE IF flag_txt \in {"inactive", "0", "false", "no"} THEN FALSE
    ELSE IF flag_txt = "nan" THEN TRUE      \* float(nan) != 0
    ELSE FALSE                              \* float(raw) raises

\* a requirement read from the list of required cells
required_of_ByCells(row) == row.Required_Cells # {}

required_of(row) == row.Balancing_Required = "YES"

has_req_odd_row(row) == \E c \in row.Required_Cells : is_odd(c)
has_req_even_row(row) == \E c \in row.Required_Cells : is_even(c)
has_odd_act(row) == \E c \in row.Active_Cells : is_odd(c)
has_even_act(row) == \E c \in row.Active_Cells : is_even(c)

\* a gap test that already resets at the threshold
GapExceeded_AtBoundary(gap) == gap >= TIME_GAP_RESET_SEC

\* the gap test on the time since the previous row
GapExceeded(gap) == gap > TIME_GAP_RESET_SEC

\* a reset that leaves the pending-activation timer running
ResetTimers_KeepPending(s) ==
    [ClearSegment(s) EXCEPT !.mismatch_start_time = None,
                            !.mismatch_active = FALSE,
                            !.mismatch_reason_cached = <<>>]

ResetTimers(s) ==
    [ClearSegment(s) EXCEPT !.pending_activation_start_time = None,
                            !.mismatch_start_time = None,
                            !.mismatch_active = FALSE,
                            !.mismatch_reason_cached = <<>>]

\* a gap reset that drops the open segment unchecked
GapReset_NoFinalize(s, i, t, Time) ==
    LET r == IF s.prev_t # None /\ GapExceeded(t - s.prev_t)
             THEN ResetTimers(s)
             ELSE s
    IN  [r EXCEPT !.prev_t = t]

\* "Gap reset" block, ending with prev_t = t
GapReset(s, i, t, Time) ==
    LET r == IF s.prev_t # None /\ GapExceeded(t - s.prev_t)
             THEN ResetTimers(finalize_segment(s, i - 1, Time))
             ELSE s
    IN  [r EXCEPT !.prev_t = t]

\* a pending window that already fails at the boundary
ActivationLate_AtBoundary(t, start) == t - start >= PENDING_TIME_SEC

ActivationLate(t, start) == t - start > PENDING_TIME_SEC

ActivationText ==
    Text("Balancing active flag not set within 0.4s of requirement", 0, <<>>)

\* an activation window that runs whatever the flag says
ActivationTiming_AnyFlag(s, i, t, required, flag_active) ==
    IF required
    THEN IF s.pending_activation_start_time = None
         THEN [s EXCEPT !.pending_activation_start_time = t]
         ELSE IF ActivationLate(t, s.pending_activation_start_time)
              THEN Marked(s, i, ActivationText)
              ELSE s
    ELSE [s EXCEPT !.pending_activation_start_time = None]

\* an activation window that is reported once and then counted afresh
ActivationTiming_Once(s, i, t, required, flag_active) ==
    IF required /\ ~flag_active
    THEN IF s.pending_activation_start_time = None
         THEN [s EXCEPT !.pending_activation_start_time = t]
         ELSE IF ActivationLate(t, s.pending_activation_start_time)
              THEN [Marked(s, i, ActivationText) EXCEPT !.pending_activation_start_time = t]
              ELSE s
    ELSE [s EXCEPT !.pending_activation_start_time = None]

\* 1) Activation timing
ActivationTiming(s, i, t, required, flag_active) ==
    IF required /\ ~flag_active
    THEN IF s.pending_activation_start_time = None
         THEN [s EXCEPT !.pending_activation_start_time = t]
         ELSE IF ActivationLate(t, s.pending_activation_start_time)
              THEN Marked(s, i, ActivationText)
              ELSE s
    ELSE [s EXCEPT !.pending_activation_start_time = None]

\* reasons that count the missing cells of a row with no active cell
MismatchReasons_EmptyActive(row, required, flag_active) ==
    IF required /\ flag_active
    THEN (IF row.Missing # {} THEN <<<<"Missing cells", row.Missing>>>> ELSE <<>>)
         \o (IF row.Extra # {} THEN <<<<"Extra cells", row.Extra>>>> ELSE <<>>)
    ELSE IF row.Active_Cells # {}
         THEN <<<<"Unexpected active cells when balancing not required",
                  row.Active_Cells>>>>
         ELSE <<>>

\* 2) the list "reasons" of the row; empty iff mismatch_now is False
MismatchReasons(row, required, flag_active) ==
    IF required /\ flag_active
    THEN IF row.Active_Cells # {}
         THEN (IF row.Missing # {} THEN <<<<"Missing cells", row.Missing>>>> ELSE <<>>)
              \o (IF row.Extra # {} THEN <<<<"Extra cells", row.Extra>>>> ELSE <<>>)
         ELSE <<>>
    ELSE IF row.Active_Cells # {}
         THEN <<<<"Unexpected active cells when balancing not required",
                  row.Active_Cells>>>>
         ELSE <<>>

\* a grace that is the pending window on every row
Grace_AlwaysPending(row, required, flag_active) == PENDING_TIME_SEC

\* the grace in force on a mismatching row
Grace(row, required, flag_active) ==
    IF required /\ flag_active /\ has_req_odd_row(row) /\ has_req_even_row(row)
       /\ (has_odd_act(row) # has_even_act(row))
    THEN MIXED_SEQUENCE_GRACE_SEC
    ELSE PENDING_TIME_SEC

\* a grace that already fails at the boundary
MismatchLate_AtBoundary(t, start, grace) == t - start >= grace

MismatchLate(t, start, grace) == t - start > grace

MismatchText(grace, desc) == Text("Cell mismatch >", Fmt1f(grace), desc)

\* a mismatch timer that keeps its start when the description changes
MismatchTiming_NoRestart(s, i, t, row, required, flag_active) ==
    LET reasons == MismatchReasons(row, required, flag_active)
    IN  IF reasons # <<>>
        THEN IF ~s.mismatch_active
             THEN [s EXCEPT !.mismatch_active = TRUE,
                            !.mismatch_start_time = t,
                            !.mismatch_reason_cached = reasons]
             ELSE LET r == [s EXCEPT !.mismatch_reason_cached = reasons]
                      grace == Grace(row, required, flag_active)
                  IN  IF MismatchLate(t, r.mismatch_start_time, grace)
                      THEN Marked(r, i, MismatchText(grace, r.mismatch_reason_cached))
                      ELSE r
        ELSE [s EXCEPT !.mismatch_active = FALSE,
                       !.mismatch_start_time = None,
                       !.mismatch_reason_cached = <<>>]

MismatchTiming(s, i, t, row, required, flag_active) ==
    LET reasons == MismatchReasons(row, required, flag_active)
    IN  IF reasons # <<>>
        THEN IF ~s.mismatch_active
             THEN [s EXCEPT !.mismatch_active = TRUE,
                            !.mismatch_start_time = t,
                            !.mismatch_reason_cached = reasons]
             ELSE LET r == IF reasons # s.mismatch_reason_cached
                           THEN [s EXCEPT !.mismatch_start_time = t,
                                          !.mismatch_reason_cached = reasons]
                           ELSE s
                      grace == Grace(row, required, flag_active)
                  IN  IF MismatchLate(t, r.mismatch_start_time, grace)
                      THEN Marked(r, i, MismatchText(grace, r.mismatch_reason_cached))
                      ELSE r
        ELSE [s EXCEPT !.mismatch_active = FALSE,
                       !.mismatch_start_time = None,
                       !.mismatch_reason_cached = <<>>]

ParityMixText ==
    Text("Active cells include both odd and even while mixed requirement should alternate",
         0, <<>>)

\* a parity test that does not look at the required cells
ParityMix_AnyRequired(row) == has_odd_act(row) /\ has_even_act(row)

\* a parity test that asks for odd cells only
ParityMix_OddOnly(row) ==
    has_req_odd_row(row) /\ has_req_even_row(row) /\ has_odd_act(row) /\ ~has_even_act(row)

ParityMix(row) ==
    has_req_odd_row(row) /\ has_req_even_row(row) /\ has_odd_act(row) /\ has_even_act(row)

\* 3) the classification of the row
RowState(row, required, flag_active) ==
    IF required /\ flag_active
    THEN IF row.Active_Cells = {} THEN "REST"
         ELSE IF has_odd_act(row) /\ ~has_even_act(row) THEN "ODD"
         ELSE IF has_even_act(row) /\ ~has_odd_act(row) THEN "EVEN"
         ELSE "None"
    ELSE "None"

OpenSegment(s, state, i, t, row) ==
    [s EXCEPT !.current_seg_state = state,
              !.current_seg_start_idx = i,
              !.current_seg_start_time = t,
              !.seg_req_odd = has_req_odd_row(row),
              !.seg_req_even = has_req_even_row(row)]

\* segments that test the duration of the open segment on every row
Segments_CheckOpen(s, i, t, row, required, flag_active, Time) ==
    LET m == IF required /\ flag_active /\ ParityMix(row)
             THEN Marked(s, i, ParityMixText) ELSE s
        state == RowState(row, required, flag_active)
    IN  IF state = "None" THEN finalize_segment(m, i - 1, Time)
        ELSE IF m.current_seg_state = "None" THEN OpenSegment(m, state, i, t, row)
        ELSE IF state = m.current_seg_state
             THEN LET e == [m EXCEPT !.seg_req_odd = @ \/ has_req_odd_row(row),
                                     !.seg_req_even = @ \/ has_req_even_row(row)]
                      viol == SegmentViolation(e.current_seg_state, e.seg_req_odd,
                                               e.seg_req_even,
                                               SegmentDuration(e, i, Time))
                  IN  IF viol = <<>> THEN e ELSE Marked(e, i, viol[1])
             ELSE OpenSegment(finalize_segment(m, i - 1, Time), state, i, t, row)

\* segments whose accumulators hold the last row only
Segments_Overwrite(s, i, t, row, required, flag_active, Time) ==
    LET m == IF required /\ flag_active /\ ParityMix(row)
             THEN Marked(s, i, ParityMixText) ELSE s
        state == RowState(row, required, flag_active)
    IN  IF state = "None" THEN finalize_segment(m, i - 1, Time)
        ELSE IF m.current_seg_state = "None" THEN OpenSegment(m, state, i, t, row)
        ELSE IF state = m.current_seg_state
             THEN [m EXCEPT !.seg_req_odd = has_req_odd_row(row),
                            !.seg_req_even = has_req_even_row(row)]
             ELSE OpenSegment(finalize_segment(m, i - 1, Time), state, i, t, row)

Segments(s, i, t, row, required, flag_active, Time) ==
    LET m == IF required /\ flag_active /\ ParityMix(row)
             THEN Marked(s, i, ParityMixText) ELSE s
        state == RowState(row, required, flag_active)
    IN  IF state = "None" THEN finalize_segment(m, i - 1, Time)
        ELSE IF m.current_seg_state = "None" THEN OpenSegment(m, state, i, t, row)
        ELSE IF state = m.current_seg_state
             THEN [m EXCEPT !.seg_req_odd = @ \/ has_req_odd_row(row),
                            !.seg_req_even = @ \/ has_req_even_row(row)]
             ELSE OpenSegment(finalize_segment(m, i - 1, Time), state, i, t, row)

\* the body of "for i, row in enumerate(df.itertuples(index=False))" for row i;
\* s holds the lists with their entry for row i still PASS / OK
LoopBody(s, i, row, Time) ==
    LET t == row.Time
        required == required_of(row)
        flag_active == flag_active_of(row.Flag_Balancing_Active)
        s1 == GapReset(s, i, t, Time)
        s2 == ActivationTiming(s1, i, t, required, flag_active)
        s3 == MismatchTiming(s2, i, t, row, required, flag_active)
    IN  Segments(s3, i, t, row, required, flag_active, Time)

----------------------------------------------------------------------------
(* The analysed table.  A row of it, as add_pass_fail_fast reads it: Missing*)
(* and Extra are the differences analyze_fast stores beside the two sets.  *)

Row(t, required, flag_txt, req_cells, active_cells) ==
    [Time |-> t,
     Balancing_Required |-> IF required THEN "YES" ELSE "NO",
     Flag_Balancing_Active |-> flag_txt,
     Required_Cells |-> req_cells,
     Active_Cells |-> active_cells,
     Missing |-> req_cells \ active_cells,
     Extra |-> active_cells \ req_cells]

\* the rows the model draws from: <<required, flag, Required_Cells, Active_Cells>>
RowKinds ==
    { <<FALSE, "inactive", {}, {}>>,        \* nothing required, nothing active
      <<FALSE, "inactive", {}, {1}>>,       \* active cells though not required
      <<TRUE,  "inactive", {1}, {}>>,       \* required, flag not raised
      <<TRUE,  "inactive", {1}, {1}>>,      \* required, flag not raised, cells active
      <<TRUE,  "active",   {1}, {1}>>,      \* ODD, as required
      <<TRUE,  "active",   {1}, {}>>,       \* REST
      <<TRUE,  "active",   {1}, {2}>>,      \* EVEN, missing and extra
      <<TRUE,  "active",   {1}, {1, 2}>>,   \* both parities active, one required
      <<TRUE,  "active",   {},  {1}>>,      \* required by the pack delta, no cell listed
      <<TRUE,  "active",   {1, 2}, {}>>,    \* REST, both parities required
      <<TRUE,  "active",   {1, 2}, {1}>>,   \* ODD of an alternating sequence
      <<TRUE,  "active",   {1, 2}, {2}>>,   \* EVEN of an alternating sequence
      <<TRUE,  "active",   {1, 2}, {1, 2}>> \* both parities active at once
    }

VARIABLES
    \* add_pass_fail_fast
    df,     \* the rows of the table read so far, sorted by Time
    st,     \* passfail, remark and the closure variables of add_pass_fail_fast
    pc,     \* "loop" inside the for loop, "done" after return
    deltas, \* the steps of time the rows of this table are drawn with
    \* decode_frames_fast and forward_fill_signals
    frames,     \* the frames parse_trc_fast returned, as far as decoded
    idx_store,  \* column -> row indices holding a value
    val_store,  \* column -> those values
    timeline,   \* the DataFrame, once materialized
    order,      \* the row order sort_values("Time") chose
    tpc,        \* "decode", "table", "filled" or "error"
    \* run: find_dead_cells and analyze_fast
    table,      \* the forward-filled DataFrame handed to run
    dead_cells, \* the result of find_dead_cells
    analyzed,   \* the rows analyze_fast returned
    apc,        \* "input" or "analyzed"
    inputs,     \* the rows the table handed to run is drawn from
    \* parse_trc_fast
    lines,      \* the lines of the file read so far
    parsed,     \* the list frames of parse_trc_fast
    rpc,        \* "read", "returned", "no_frames" or "raised"
    \* a call of a function on its own
    call,       \* the function called and its arguments
    ret         \* what it returned

smvars == <<df, st, pc, deltas>>
tlvars == <<frames, idx_store, val_store, timeline, order, tpc>>
anvars == <<table, dead_cells, analyzed, apc, inputs>>
rdvars == <<lines, parsed, rpc>>
fnvars == <<call, ret>>
vars == <<smvars, tlvars, anvars, rdvars, fnvars>>

\* the stages that a specification does not run stay as they are
BaseCols == {"TimeStr", "Time", "can_id"}

\* decode_frames_fast before its loop: the always-present columns, empty
TimelineIdle ==
    /\ frames = <<>>
    /\ idx_store = [c \in BaseCols |-> <<>>]
    /\ val_store = [c \in BaseCols |-> <<>>]
    /\ timeline = <<>> /\ order = <<>> /\ tpc = "decode"
AnalysisStart ==
    /\ table = <<>> /\ dead_cells = {} /\ analyzed = <<>> /\ apc = "input"
\* parse_trc_fast before its loop
ReaderIdle ==
    /\ lines = <<>> /\ parsed = <<>> /\ rpc = "read"
CallIdle ==
    /\ call = [fn |-> "none"] /\ ret = <<>>
AnalysisIdle ==
    /\ AnalysisStart /\ inputs = {}
PassFailIdle ==
    /\ df = <<>> /\ st = InitEval /\ pc = "loop" /\ deltas = {}

TimeColumn(d) == [k \in 1..Len(d) |-> d[k].Time]

Start ==
    /\ df = <<>>
    /\ st = InitEval
    /\ pc = "loop"

Init == Start /\ deltas = Deltas /\ TimelineIdle /\ AnalysisIdle /\ ReaderIdle /\ CallIdle

InitGap == Start /\ deltas = GapDeltas /\ TimelineIdle /\ AnalysisIdle /\ ReaderIdle /\ CallIdle

\* passfail = ["PASS"] * len(df); remark = ["OK"] * len(df), one row at a time
WithRow(s) ==
    [s EXCEPT !.passfail = Append(@, "PASS"), !.remark = Append(@, <<OK>>)]

\* the loop reaches row i = Len(df), whose content is drawn here
LoopStep ==
    /\ pc = "loop"
    /\ Len(df) < MaxRows
    /\ \E kind \in RowKinds, d \in deltas :
         LET i == Len(df)
             t == IF i = 0 THEN 0 ELSE df[i].Time + d
             row == Row(t, kind[1], kind[2], kind[3], kind[4])
         IN  /\ df' = Append(df, row)
             /\ st' = LoopBody(WithRow(st), i, row, TimeColumn(df'))
    /\ UNCHANGED <<pc, deltas, tlvars, anvars, rdvars, fnvars>>

\* "if df.empty: return df"
ReturnEmpty ==
    /\ pc = "loop"
    /\ df = <<>>
    /\ pc' = "done"
    /\ UNCHANGED <<df, st, deltas, tlvars, anvars, rdvars, fnvars>>

\* a return that drops the open segment unchecked
Return_Unchecked ==
    /\ pc = "loop"
    /\ df # <<>>
    /\ st' = ClearSegment(st)
    /\ pc' = "done"
    /\ UNCHANGED <<df, deltas, tlvars, anvars, rdvars, fnvars>>

\* after the loop: finalize_segment(len(df) - 1), then the columns are stored
Return ==
    /\ pc = "loop"
    /\ df # <<>>
    /\ st' = finalize_segment(st, Len(df) - 1, TimeColumn(df))
    /\ pc' = "done"
    /\ UNCHANGED <<df, deltas, tlvars, anvars, rdvars, fnvars>>

Next == LoopStep \/ ReturnEmpty \/ Return

Spec == Init /\ [][Next]_vars

\* the same evaluation on tables whose steps lie around the reset threshold
SpecGap == InitGap /\ [][Next]_vars

----------------------------------------------------------------------------
(* Notions the claims are stated in, read off the table df alone           *)

NRows == Len(df)
Rows == 0..(NRows - 1)
T(k) == df[k + 1].Time
Req(k) == df[k + 1].Balancing_Required = "YES"
Flag(k) == flag_active_of(df[k + 1].Flag_Balancing_Active)
ReqSet(k) == df[k + 1].Required_Cells
ActSet(k) == df[k + 1].Active_Cells
Odd(S) == \E c \in S : c % 2 = 1
Even(S) == \E c \in S : c % 2 = 0

\* more than 5 s have passed since the previous row
GapBefore(k) == k > 0 /\ T(k) - T(k - 1) > 50000

PassFail(k) == st.passfail[k + 1]
Remark(k) == st.remark[k + 1]
HasText(k, text) == \E n \in 1..Len(Remark(k)) : Remark(k)[n] = text
HasKind(k, kinds) == \E n \in 1..Len(Remark(k)) : Remark(k)[n].kind \in kinds

\* the textual description of the mismatch of row k, <<>> when it has none
Description(k) ==
    LET missing == ReqSet(k) \ ActSet(k)
        extra   == ActSet(k) \ ReqSet(k)
    IN  IF Req(k) /\ Flag(k)
        THEN IF ActSet(k) = {} THEN <<>>
             ELSE (IF missing # {} THEN <<<<"Missing cells", missing>>>> ELSE <<>>)
                  \o (IF extra # {} THEN <<<<"Extra cells", extra>>>> ELSE <<>>)
        ELSE IF ActSet(k) # {}
             THEN <<<<"Unexpected active cells when balancing not required", ActSet(k)>>>>
             ELSE <<>>

\* the alternating-sequence case, in which the grace is 1.0 s
AlternatingCase(k) ==
    /\ Req(k) /\ Flag(k)
    /\ Odd(ReqSet(k)) /\ Even(ReqSet(k))
    /\ Odd(ActSet(k)) # Even(ActSet(k))

\* rows s..j show one mismatch with one description, s being its first row
MismatchRun(s, j) ==
    /\ s <= j
    /\ Description(s) # <<>>
    /\ \A k \in s..j : Description(k) = Description(s)
    /\ \A k \in (s + 1)..j : ~GapBefore(k)
    /\ (s = 0 \/ GapBefore(s) \/ Description(s - 1) # Description(s))

----------------------------------------------------------------------------
\* C1: while one mismatch lasts with an unchanged description and the normal
\* grace is in force on a row, that row carries no "Cell mismatch" reason if
\* it is at most 0.4 s after the first mismatching row (in particular at
\* exactly 0.4 s), and it is FAIL with "Cell mismatch >0.4s: <description>"
\* if it is more than 0.4 s after it.
C1_MismatchGraceBoundary ==
    \A s \in Rows : \A j \in Rows :
        (MismatchRun(s, j) /\ ~AlternatingCase(j)) =>
            IF T(j) - T(s) > 4000
            THEN /\ PassFail(j) = "FAIL"
                 /\ HasText(j, Text("Cell mismatch >", 4, Description(s)))
            ELSE ~HasKind(j, {"Cell mismatch >"})

\* a mismatch run with a row exactly 0.4 s after its first row and a later
\* row beyond it
C1_Witness ==
    \E s \in Rows : \E j \in Rows : \E m \in Rows :
        /\ MismatchRun(s, j) /\ ~AlternatingCase(j) /\ T(j) - T(s) = 4000
        /\ MismatchRun(s, m) /\ ~AlternatingCase(m) /\ T(m) - T(s) > 4000
        /\ HasKind(m, {"Cell mismatch >"})

----------------------------------------------------------------------------
(* Segments, read off the table: the class of a row, and the maximal runs  *)
(* of rows of one class that no gap of more than 5 s interrupts.           *)

Class(k) ==
    IF Req(k) /\ Flag(k)
    THEN IF ActSet(k) = {} THEN "REST"
         ELSE IF ~Even(ActSet(k)) THEN "ODD"
         ELSE IF ~Odd(ActSet(k)) THEN "EVEN"
         ELSE "None"
    ELSE "None"

\* rows a..b are a segment from its first row a (b need not be its last)
SegmentFrom(a, b) ==
    /\ a <= b
    /\ Class(a) # "None"
    /\ \A k \in a..b : Class(k) = Class(a)
    /\ \A k \in (a + 1)..b : ~GapBefore(k)
    /\ (a = 0 \/ GapBefore(a) \/ Class(a - 1) # Class(a))

\* b is the last row of its segment and the segment has been closed by the
\* next row (another class, or a gap before it)
ClosedByRow(b) == b + 1 < NRows /\ (Class(b + 1) # Class(b) \/ GapBefore(b + 1))
\* ... or by the end of the trace
ClosedByEnd(b) == b = NRows - 1 /\ pc = "done"
Closed(a, b) == SegmentFrom(a, b) /\ (ClosedByRow(b) \/ ClosedByEnd(b))

OnKinds == {"ODD balancing ON too long", "EVEN balancing ON too long"}
RestKinds == {"REST (odd/even sequence) too long", "REST (normal) too long"}

----------------------------------------------------------------------------
\* C2: when an ODD or EVEN segment is closed, a measured duration (time of
\* its last row minus time of its first row) of at most 0.9 s, in particular
\* of exactly 0.9 s, leaves no "balancing ON too long" reason, and a duration
\* above 0.9 s makes the segment's last row FAIL with the reason
\* "<ODD|EVEN> balancing ON too long: <duration to the millisecond>".
C2_SegmentDurationBoundary ==
    \A a \in Rows : \A b \in Rows :
        (Closed(a, b) /\ Class(a) \in {"ODD", "EVEN"}) =>
            LET duration == T(b) - T(a)
            IN  IF duration > 9000
                THEN /\ PassFail(b) = "FAIL"
                     /\ HasText(b, Text(IF Class(a) = "ODD"
                                        THEN "ODD balancing ON too long"
                                        ELSE "EVEN balancing ON too long",
                                        (duration + 5) \div 10, <<>>))
                ELSE ~HasKind(b, OnKinds)

\* an ODD or EVEN segment closed by a following row with exactly 0.9 s measured
C2_Witness ==
    \E a \in Rows : \E b \in Rows :
        /\ Closed(a, b) /\ ClosedByRow(b)
        /\ Class(a) \in {"ODD", "EVEN"}
        /\ T(b) - T(a) = 9000
        /\ PassFail(b) = "PASS"

----------------------------------------------------------------------------
\* C4: row i carries "Balancing active flag not set within 0.4s" if and only
\* if balancing is required and the flag is not active on row i and on every
\* row back to the first row s of the same run (rows s..i without a gap of
\* more than 5 s, row s - 1 absent, before a gap or not Required-and-not-flag)
\* and row i is more than 0.4 s after row s.
Pending(k) == Req(k) /\ ~Flag(k)

PendingRun(s, i) ==
    /\ s <= i
    /\ \A k \in s..i : Pending(k)
    /\ \A k \in (s + 1)..i : ~GapBefore(k)
    /\ (s = 0 \/ GapBefore(s) \/ ~Pending(s - 1))

C4_ActivationLatency ==
    \A i \in Rows :
        HasKind(i, {"Balancing active flag not set within 0.4s of requirement"})
            <=> \E s \in Rows : PendingRun(s, i) /\ T(i) - T(s) > 4000

\* a run whose second row is exactly 0.4 s after its first and passes, and
\* whose third row is beyond the window and fails
C4_Witness ==
    \E s \in Rows : \E j \in Rows : \E i \in Rows :
        /\ PendingRun(s, j) /\ T(j) - T(s) = 4000 /\ PassFail(j) = "PASS"
        /\ PendingRun(s, i) /\ T(i) - T(s) > 4000 /\ PassFail(i) = "FAIL"

----------------------------------------------------------------------------
\* C5: every row on which balancing is required, the flag is active, the
\* required cells include an odd and an even cell and the active cells
\* include an odd and an even cell is FAIL with the parity-mix reason, the
\* first row of the trace and the first row after a gap included.
MixRow(k) ==
    /\ Req(k) /\ Flag(k)
    /\ Odd(ReqSet(k)) /\ Even(ReqSet(k))
    /\ Odd(ActSet(k)) /\ Even(ActSet(k))

C5_ParityMixImmediateFail ==
    \A k \in Rows :
        MixRow(k) => /\ PassFail(k) = "FAIL"
                     /\ HasText(k, ParityMixText)

\* the first row of the trace and the first row after a gap are such rows
C5_Witness ==
    /\ NRows >= 2
    /\ MixRow(0)
    /\ \E k \in Rows : GapBefore(k) /\ MixRow(k) /\ PassFail(k) = "FAIL"

----------------------------------------------------------------------------
(* The evaluation of a table d on its own: the loop over its first n rows, *)
(* and the whole call.                                                     *)

RECURSIVE LoopOver(_, _)
LoopOver(d, n) ==
    IF n = 0 THEN InitEval
    ELSE LoopBody(WithRow(LoopOver(d, n - 1)), n - 1, d[n],
                  TimeColumn(SubSeq(d, 1, n)))

Evaluated(d) == finalize_segment(LoopOver(d, Len(d)), Len(d) - 1, TimeColumn(d))

\* the rows of df from row g on
Suffix(g) == SubSeq(df, g + 1, NRows)

\* the evaluation of that suffix alone, taken as far as the one of df is
OnItsOwn(g) ==
    IF pc = "done" THEN Evaluated(Suffix(g)) ELSE LoopOver(Suffix(g), NRows - g)

TimersClear(s) ==
    /\ s.pending_activation_start_time = None
    /\ s.mismatch_start_time = None /\ ~s.mismatch_active
    /\ s.mismatch_reason_cached = <<>>
    /\ s.current_seg_state = "None" /\ s.current_seg_start_time = None

\* C3: for every row g that comes more than 5 s after its predecessor, the
\* timers and the open segment are clear when row g is evaluated, and the
\* verdicts and reasons of rows g, g+1, ... are those of the evaluation of
\* the suffix that starts at row g; a gap of exactly 5 s does not reset: a
\* row exactly 5 s after a row of the same Required-and-not-flag run fails
\* the activation window, which a row after a longer gap does not.
C3_GapResetIndependence ==
    \A g \in Rows : g > 0 =>
        /\ T(g) - T(g - 1) > 50000 =>
              /\ TimersClear(ResetTimers(finalize_segment(
                        LoopOver(df, g), g - 1, TimeColumn(df))))
              /\ \A k \in g..(NRows - 1) :
                    /\ PassFail(k) = OnItsOwn(g).passfail[k - g + 1]
                    /\ Remark(k) = OnItsOwn(g).remark[k - g + 1]
        /\ (Pending(g - 1) /\ Pending(g) /\ T(g) - T(g - 1) >= 50000) =>
              (HasKind(g, {"Balancing active flag not set within 0.4s of requirement"})
                  <=> T(g) - T(g - 1) = 50000)

\* a timer was pending before a gap of more than 5 s, the row after the gap
\* continues the condition and passes, and another row of the trace comes
\* exactly 5 s after its predecessor
C3_Witness ==
    \E g \in Rows : \E h \in Rows :
        /\ g > 0 /\ T(g) - T(g - 1) > 50000
        /\ Pending(g - 1) /\ Pending(g) /\ PassFail(g) = "PASS"
        /\ h > 0 /\ T(h) - T(h - 1) = 50000
        /\ Pending(h - 1) /\ Pending(h) /\ PassFail(h) = "FAIL"

----------------------------------------------------------------------------
(* C9 *)

IsPrefix(p, q) == Len(p) <= Len(q) /\ \A n \in 1..Len(p) : q[n] = p[n]

\* a step of the evaluation leaves every FAIL row FAIL and only adds to the
\* end of its remark
StepKeepsFail ==
    \A k \in 1..Len(st.passfail) :
        st.passfail[k] = "FAIL" =>
            /\ st'.passfail[k] = "FAIL"
            /\ IsPrefix(st.remark[k], st'.remark[k])

\* reasons of every kind, among them those that already stand on a row
SomeReasons ==
    {ActivationText, ParityMixText,
     Text("ODD balancing ON too long", 900, <<>>),
     Text("Cell mismatch >", 4, <<<<"Extra cells", {2}>>>>)}

\* mark_fail on a FAIL row of the table: a reason that is not on the row yet
\* is put behind the reasons it has, nothing else changes
MarkFailAppends ==
    \A k \in Rows : \A reason \in SomeReasons :
        LET v == mark_fail(Verdicts(st), k, reason)
        IN  PassFail(k) = "FAIL" =>
              /\ v.passfail = st.passfail
              /\ \A j \in Rows : j # k => v.remark[j + 1] = Remark(j)
              /\ v.remark[k + 1] =
                    IF HasText(k, reason) THEN Remark(k) ELSE Append(Remark(k), reason)

\* C9: once a row is FAIL no later step of the evaluation makes it PASS or
\* takes a reason from its remark, and mark_fail puts a further, different
\* reason behind the reasons the row already has (the texts then joined by
\* " | "), so every reason that landed on a row stays in its remark.
C9_VerdictAppendOnly == [][StepKeepsFail]_vars /\ []MarkFailAppends

\* a row that was FAIL for a mismatch and then got the reason of its segment
C9_Witness ==
    \E k \in Rows :
        /\ PassFail(k) = "FAIL"
        /\ Remark(k)[1].kind = "Cell mismatch >"
        /\ Len(Remark(k)) >= 2
        /\ Remark(k)[2].kind \in OnKinds \cup RestKinds

----------------------------------------------------------------------------
(* C10 *)

\* the reasons about a segment's duration that stand on row k
DurationTexts(k) ==
    {Remark(k)[n] : n \in {m \in 1..Len(Remark(k)) :
                               Remark(k)[m].kind \in OnKinds \cup RestKinds}}

\* what closing the segment of rows a..b has to leave on its last row: the
\* class-specific bound on the duration from the first to the last row
DurationRule(a, b) ==
    LET duration == T(b) - T(a)
        ms == (duration + 5) \div 10
        both == (\E k \in a..b : Odd(ReqSet(k))) /\ (\E k \in a..b : Even(ReqSet(k)))
    IN  IF Class(a) = "ODD" /\ duration > 9000
        THEN {Text("ODD balancing ON too long", ms, <<>>)}
        ELSE IF Class(a) = "EVEN" /\ duration > 9000
        THEN {Text("EVEN balancing ON too long", ms, <<>>)}
        ELSE IF Class(a) = "REST" /\ duration > 12500
        THEN {Text(IF both THEN "REST (odd/even sequence) too long"
                   ELSE "REST (normal) too long", ms, <<>>)}
        ELSE {}

\* C10: when the evaluation has returned no segment is open, and the segment
\* that was open after the last row has been checked as one closed by a
\* following row is: the same bound for its class, the same reason text.
C10_EndOfTraceClosesSegment ==
    /\ pc = "done" => /\ st.current_seg_state = "None"
                      /\ st.current_seg_start_idx = None
                      /\ st.current_seg_start_time = None
    /\ \A a \in Rows : \A b \in Rows :
          Closed(a, b) => DurationTexts(b) = DurationRule(a, b)

\* a trace that ends inside a REST segment that lasted too long
C10_Witness ==
    \E a \in Rows : \E b \in Rows :
        /\ SegmentFrom(a, b) /\ ClosedByEnd(b)
        /\ Class(a) = "REST"
        /\ DurationTexts(b) # {}
        /\ PassFail(b) = "FAIL"

----------------------------------------------------------------------------
(* decode_frames_fast and forward_fill_signals.  The schema is not part of *)
(* the repository: two messages with one signal each stand for it, and a   *)
(* payload is its decoded value, 0 standing for one the decoder raises on. *)

msg_by_id == [cid \in {1, 2} |-> IF cid = 1 THEN {"SoC"} ELSE {"Voltage_Min"}]
CanIds == {1, 2, 3}
Payloads == {0, 1, 2}
FrameTimes == {0, 1, 2}

\* a decoder that reports the signals of the other messages as 0
decoded_of_ZeroOthers(cid, data) ==
    IF cid \notin DOMAIN msg_by_id THEN <<>>
    ELSE IF data = 0 THEN <<>>
    ELSE [k \in UNION {msg_by_id[c] : c \in DOMAIN msg_by_id} |->
             IF k \in msg_by_id[cid] THEN data ELSE 0]

\* the decoded dict of a frame; the empty function when the id is unknown
\* ("continue") or the decoder raises ("except Exception: continue")
decoded_of(cid, data) ==
    IF cid \notin DOMAIN msg_by_id THEN <<>>
    ELSE IF data = 0 THEN <<>>
    ELSE [k \in msg_by_id[cid] |-> data]

\* store[k].append(f[k]) for every key k of f, store a defaultdict(list)
AppendAll(store, f) ==
    [c \in DOMAIN store \cup DOMAIN f |->
        IF c \notin DOMAIN f THEN store[c]
        ELSE IF c \in DOMAIN store THEN Append(store[c], f[c])
        ELSE <<f[c]>>]

\* one iteration of the decode loop, for the frame <<t, cid, data>> read next
DecodeFrame ==
    /\ tpc = "decode"
    /\ Len(frames) < MaxFrames
    /\ \E t \in FrameTimes, cid \in CanIds, data \in Payloads :
         LET row_idx == Len(frames)
             t0 == IF row_idx = 0 THEN 0 ELSE t
             decoded == decoded_of(cid, data)
             base == [c \in BaseCols |-> IF c = "can_id" THEN cid ELSE t0]
         IN  /\ frames' = Append(frames, [t |-> t0, cid |-> cid, data |-> data])
             /\ idx_store' = AppendAll(AppendAll(idx_store, [c \in BaseCols |-> row_idx]),
                                       [k \in DOMAIN decoded |-> row_idx])
             /\ val_store' = AppendAll(AppendAll(val_store, base), decoded)
    /\ UNCHANGED <<timeline, order, tpc, smvars, anvars, rdvars, fnvars>>

\* "if total == 0: raise ValueError"
DecodeNoFrames ==
    /\ tpc = "decode"
    /\ frames = <<>>
    /\ tpc' = "error"
    /\ UNCHANGED <<frames, idx_store, val_store, timeline, order, smvars, anvars, rdvars, fnvars>>

\* pd.Series(vals, index=idxs).reindex(row_index): the value of a column at
\* row r (0-based), NaN where the column has none
Reindexed(col, r) ==
    IF \E n \in 1..Len(idx_store[col]) : idx_store[col][n] = r
    THEN val_store[col][CHOOSE n \in 1..Len(idx_store[col]) : idx_store[col][n] = r]
    ELSE NaN

\* the columns are materialized after the loop
Materialize ==
    /\ tpc = "decode"
    /\ frames # <<>>
    /\ timeline' = [r \in 1..Len(frames) |->
                       [col \in DOMAIN idx_store |-> Reindexed(col, r - 1)]]
    /\ tpc' = "table"
    /\ UNCHANGED <<frames, idx_store, val_store, order, smvars, anvars, rdvars, fnvars>>

\* no sort: the rows stay as they come
SortOrders_Unsorted(d) == {[r \in 1..Len(d) |-> r]}

\* the orders sort_values("Time") may give: ascending in Time, rows of equal
\* Time in an order the sort algorithm picks (the default sort is not stable)
SortOrders(d) ==
    {p \in Permutations(1..Len(d)) :
        \A a \in 1..Len(d) : \A b \in 1..Len(d) :
            a < b => d[p[a]].Time <= d[p[b]].Time}

\* a fill that carries a value over one row only
Ffill_OneRow(d, cols) ==
    [r \in 1..Len(d) |->
        [col \in DOMAIN d[r] |->
            IF col \in cols /\ d[r][col] = NaN /\ r > 1 THEN d[r - 1][col]
            ELSE d[r][col]]]

\* df[fill_cols].ffill(): a NaN takes the filled value of the row above
RECURSIVE FfillUpTo(_, _, _)
FfillUpTo(d, cols, n) ==
    IF n = 0 THEN <<>>
    ELSE LET above == FfillUpTo(d, cols, n - 1)
         IN  Append(above,
                    [col \in DOMAIN d[n] |->
                        IF col \in cols /\ d[n][col] = NaN /\ n > 1
                        THEN above[n - 1][col]
                        ELSE d[n][col]])

Ffill(d, cols) == FfillUpTo(d, cols, Len(d))

forward_fill_signals ==
    /\ tpc = "table"
    /\ \E p \in SortOrders(timeline) :
         LET sorted == [r \in 1..Len(timeline) |-> timeline[p[r]]]
             fill_cols == DOMAIN idx_store \ BaseCols
         IN  /\ order' = p
             /\ timeline' = Ffill(sorted, fill_cols)
    /\ tpc' = "filled"
    /\ UNCHANGED <<frames, idx_store, val_store, smvars, anvars, rdvars, fnvars>>

InitTimeline == TimelineIdle /\ PassFailIdle /\ AnalysisIdle /\ ReaderIdle /\ CallIdle

NextTimeline == DecodeFrame \/ DecodeNoFrames \/ Materialize \/ forward_fill_signals

SpecTimeline == InitTimeline /\ [][NextTimeline]_vars

----------------------------------------------------------------------------
(* C6 *)

FillCols == DOMAIN idx_store \ BaseCols
TRows == 1..Len(timeline)

\* row r of the timeline is the row of a frame that decoded a value for s
UpdateAt(r, s) == s \in DOMAIN decoded_of(frames[order[r]].cid, frames[order[r]].data)

\* C6: in the forward-filled timeline, for rows i < j and every signal s, if
\* row i has a value for s and no row of (i, j] decoded s, row j holds the
\* value of row i; and once a row has a value for s no later row lacks it.
C6_CarryForward ==
    tpc = "filled" =>
        \A s \in FillCols : \A i \in TRows : \A j \in TRows :
            (i < j /\ timeline[i][s] # NaN) =>
                /\ timeline[j][s] # NaN
                /\ (\A r \in (i + 1)..j : ~UpdateAt(r, s))
                      => timeline[j][s] = timeline[i][s]

\* a value decoded on the first row of the sorted timeline reaches its third
\* row over a row in between, the rows not being in file order
C6_Witness ==
    /\ tpc = "filled"
    /\ Len(timeline) >= 3
    /\ order # <<1, 2, 3>>
    /\ \E s \in FillCols :
          /\ UpdateAt(1, s) /\ ~UpdateAt(2, s) /\ ~UpdateAt(3, s)
          /\ timeline[3][s] = timeline[1][s]
          /\ timeline[1][s] # NaN

----------------------------------------------------------------------------
(* run: detect_cells, find_dead_cells and analyze_fast on the forward-     *)
(* filled table.  A row of the table holds the signals analyze_fast reads; *)
(* voltages are in the unit of the thresholds, NaN where never observed.   *)

TEMP_LIMIT == 95
DISCHARGE_LIMIT_TABLE ==
    << <<0, 5, 61>>, <<5, 10, 26>>, <<10, 90, 16>>,
       <<90, 95, 26>>, <<95, 97, 31>>, <<97, 100, 51>> >>

\* a value that is no number: a column the table lacks (None) or a row the
\* signal was never observed on (NaN)
IsMissing(x) == x = None \/ x = NaN

\* a 64-bit mask as its four 16-bit words, the low word first
Int64(w) == [is |-> "int", w |-> w]
\* a mask int() raises on: None, NaN or a text
NotInt(kind) == [is |-> kind, w |-> <<0, 0, 0, 0>>]

\* the cells and the values the rows of the table are drawn from
Cells == {1, 2}
\* cell 1 also takes the voltage that is exactly Voltage_Min + Threshold
CellVoltages ==
    {cv \in [Cells -> {0, 3016, 3020}] : cv[2] # 3016}
VoltageMaxs == {3010, 3020}
ChargingInfos == {0, 1}

TableRow(soc, ci, bal_limit, vmax, temp, bm0, cv) ==
    [Time |-> 0, SoC |-> soc, Charging_Info |-> ci, Flag_Balancing_Active |-> "active",
     Balancing_Limit |-> bal_limit, Voltage_Min |-> 3000, Voltage_Max |-> vmax,
     BalancingMask0 |-> bm0, BalancingMask1 |-> Int64(<<0, 0, 0, 0>>),
     CellVoltage |-> cv, IntTherm |-> <<temp>>]

\* rows that differ in the cell voltages, the mode and the pack delta
CellInputs ==
    {TableRow(50, ci, 2900, vmax, 25, Int64(<<3, 0, 0, 0>>), cv) :
        ci \in ChargingInfos, vmax \in VoltageMaxs, cv \in CellVoltages}

\* rows that differ in what decides "Required?": the state of charge, the
\* mode, the balancing limit, the pack delta and the temperature
LimitInputs ==
    {TableRow(soc, ci, bal_limit, vmax, temp, Int64(<<1, 0, 0, 0>>),
              [c \in Cells |-> IF c = 1 THEN 3020 ELSE 3000]) :
        soc \in {50, 100}, ci \in ChargingInfos, bal_limit \in {3000, 3001},
        vmax \in {3011, 3016}, temp \in {25, 96}}

\* detect_cells: the CellVoltage_<c> columns of the table
detect_cells(d) == IF d = <<>> THEN {} ELSE DOMAIN d[1].CellVoltage

\* a sequence of numbers in ascending order
RECURSIVE Sorted(_)
Sorted(q) ==
    IF q = <<>> THEN <<>>
    ELSE LET m == CHOOSE n \in 1..Len(q) : \A k \in 1..Len(q) : q[n] <= q[k]
         IN  <<q[m]>> \o Sorted([k \in 1..(Len(q) - 1) |-> IF k < m THEN q[k] ELSE q[k + 1]])

\* twice the median of a column with its NaN filled by 0
Median2(col) ==
    LET q == Sorted([k \in 1..Len(col) |-> IF IsMissing(col[k]) THEN 0 ELSE col[k]])
        n == Len(q)
    IN  IF n % 2 = 1 THEN 2 * q[(n + 1) \div 2] ELSE q[n \div 2] + q[n \div 2 + 1]

\* find_dead_cells: the cells whose median voltage over the table is below 5
find_dead_cells(d, cells) ==
    {c \in cells : Median2([k \in 1..Len(d) |-> d[k].CellVoltage[c]]) < 2 * 5}

\* find_dead_therms: the sensors whose median reading is at most 0.1
find_dead_therms(d) ==
    IF d = <<>> THEN {}
    ELSE {x \in DOMAIN d[1].IntTherm :
             10 * Median2([k \in 1..Len(d) |-> d[k].IntTherm[x]]) <= 2 * 1}

\* a live-cell list that keeps the dead cells
live_cells_All(cells, dead) == cells

live_cells_of(cells, dead) == {c \in cells : c \notin dead}

mode_of(charging_info) ==
    IF IsMissing(charging_info) THEN "Unknown"
    ELSE IF charging_info \in {1, 17, 33} THEN "Charging"
    ELSE IF charging_info = 0 THEN "Discharging"
    ELSE "Ready"

\* the band of DISCHARGE_LIMIT_TABLE the loop of get_threshold returns from
InBand(n, soc) ==
    DISCHARGE_LIMIT_TABLE[n][1] <= soc /\ soc < DISCHARGE_LIMIT_TABLE[n][2]

\* a lookup that takes the upper end of a band into it
get_threshold_Closed(mode, soc) ==
    IF mode = "Charging" THEN 11
    ELSE IF IsMissing(soc) THEN None
    ELSE IF \E n \in 1..Len(DISCHARGE_LIMIT_TABLE) :
               DISCHARGE_LIMIT_TABLE[n][1] <= soc /\ soc <= DISCHARGE_LIMIT_TABLE[n][2]
    THEN DISCHARGE_LIMIT_TABLE[
             CHOOSE n \in 1..Len(DISCHARGE_LIMIT_TABLE) :
                 /\ DISCHARGE_LIMIT_TABLE[n][1] <= soc /\ soc <= DISCHARGE_LIMIT_TABLE[n][2]
                 /\ \A m \in 1..(n - 1) :
                       ~(DISCHARGE_LIMIT_TABLE[m][1] <= soc
                            /\ soc <= DISCHARGE_LIMIT_TABLE[m][2])][3]
    ELSE None

\* get_threshold; None when the state of charge is no number or in no band
get_threshold(mode, soc) ==
    IF mode = "Charging" THEN 11
    ELSE IF IsMissing(soc) THEN None
    ELSE IF \E n \in 1..Len(DISCHARGE_LIMIT_TABLE) : InBand(n, soc)
    THEN DISCHARGE_LIMIT_TABLE[
             CHOOSE n \in 1..Len(DISCHARGE_LIMIT_TABLE) :
                 InBand(n, soc) /\ \A m \in 1..(n - 1) : ~InBand(m, soc)][3]
    ELSE None

\* a temperature block that reads the dead sensors too
temp_block_of_AllSensors(r, dead_therms) ==
    \E x \in DOMAIN r.IntTherm :
        ~IsMissing(r.IntTherm[x]) /\ r.IntTherm[x] > TEMP_LIMIT

temp_block_of(r, dead_therms) ==
    \E x \in DOMAIN r.IntTherm :
        x \notin dead_therms /\ ~IsMissing(r.IntTherm[x]) /\ r.IntTherm[x] > TEMP_LIMIT

\* a test that leaves out the rows at equality
required_now_Strict(r, threshold, temp_block) ==
    /\ threshold # None /\ ~temp_block
    /\ ~IsMissing(r.Voltage_Min) /\ ~IsMissing(r.Voltage_Max)
    /\ ~IsMissing(r.Balancing_Limit)
    /\ r.Voltage_Min > r.Balancing_Limit
    /\ r.Voltage_Max - r.Voltage_Min > threshold

\* a test that takes a missing Balancing_Limit for a limit of 0
required_now_NoLimit(r, threshold, temp_block) ==
    /\ threshold # None /\ ~temp_block
    /\ ~IsMissing(r.Voltage_Min) /\ ~IsMissing(r.Voltage_Max)
    /\ r.Voltage_Min >= (IF IsMissing(r.Balancing_Limit) THEN 0 ELSE r.Balancing_Limit)
    /\ r.Voltage_Max - r.Voltage_Min >= threshold

\* "Required?": float(None) raises, a comparison with a NaN operand is False
required_now(r, threshold, temp_block) ==
    /\ threshold # None /\ ~temp_block
    /\ ~IsMissing(r.Voltage_Min) /\ ~IsMissing(r.Voltage_Max)
    /\ ~IsMissing(r.Balancing_Limit)
    /\ r.Voltage_Min >= r.Balancing_Limit
    /\ r.Voltage_Max - r.Voltage_Min >= threshold

\* a list that leaves out the cells at equality
req_cells_of_Strict(r, required, threshold, live_cells) ==
    IF required
    THEN {c \in live_cells :
             ~IsMissing(r.CellVoltage[c]) /\ r.CellVoltage[c] > r.Voltage_Min + threshold}
    ELSE {}

req_cells_of(r, required, threshold, live_cells) ==
    IF required
    THEN {c \in live_cells :
             ~IsMissing(r.CellVoltage[c]) /\ r.CellVoltage[c] >= r.Voltage_Min + threshold}
    ELSE {}

\* (m >> i) & 1, for 0 <= i < 64
Bit(w, i) == (w[(i \div 16) + 1] \div (2 ^ (i % 16))) % 2 = 1

\* "for i in range(n): if (m >> i) & 1: act.append(base + i)"
RECURSIVE Bits(_, _, _)
Bits(w, base, n) ==
    IF n = 0 THEN <<>>
    ELSE IF Bit(w, n - 1) THEN Append(Bits(w, base, n - 1), base + n - 1)
    ELSE Bits(w, base, n - 1)

\* int(m), 0 when it raises
MaskInt(m) == IF m.is = "int" THEN m.w ELSE <<0, 0, 0, 0>>

\* a decoder that gives up when one of the masks is no integer
mask_decode_AllOrNothing(m0, m1) ==
    IF m0.is = "int" /\ m1.is = "int"
    THEN Bits(m0.w, 1, 64) \o Bits(m1.w, 65, 64)
    ELSE <<>>

\* a decoder whose second loop starts at cell 64
mask_decode_Overlap(m0, m1) ==
    Bits(MaskInt(m0), 1, 64) \o Bits(MaskInt(m1), 64, 64)

\* mask_decode: the list act
mask_decode(m0, m1) ==
    Bits(MaskInt(m0), 1, 64) \o Bits(MaskInt(m1), 65, 64)

ToSet(q) == {q[n] : n \in 1..Len(q)}

\* the body of the loop of analyze_fast for one row of the table
\* an analysis that drops the dead cells from the active cells
analyze_row_LiveActive(r, live_cells, dead_therms) ==
    LET mode == mode_of(r.Charging_Info)
        threshold == get_threshold(mode, r.SoC)
        temp_block == temp_block_of(r, dead_therms)
        required == required_now(r, threshold, temp_block)
        req_cells == req_cells_of(r, required, threshold, live_cells)
        active_cells == ToSet(mask_decode(r.BalancingMask0, r.BalancingMask1)) \cap live_cells
    IN  Row(r.Time, required, r.Flag_Balancing_Active, req_cells, active_cells)

analyze_row(r, live_cells, dead_therms) ==
    LET mode == mode_of(r.Charging_Info)
        threshold == get_threshold(mode, r.SoC)
        temp_block == temp_block_of(r, dead_therms)
        required == required_now(r, threshold, temp_block)
        req_cells == req_cells_of(r, required, threshold, live_cells)
        active_cells == ToSet(mask_decode(r.BalancingMask0, r.BalancingMask1))
    IN  Row(r.Time, required, r.Flag_Balancing_Active, req_cells, active_cells)

\* an analysis that gives no row for a row without Voltage_Min
analyze_fast_DropsRows(d, cells, dead, dead_therms) ==
    LET HasVmin(r) == ~IsMissing(r.Voltage_Min)
    IN  [k \in 1..Len(SelectSeq(d, HasVmin)) |->
            analyze_row(SelectSeq(d, HasVmin)[k], live_cells_of(cells, dead), dead_therms)]

analyze_fast(d, cells, dead, dead_therms) ==
    [k \in 1..Len(d) |-> analyze_row(d[k], live_cells_of(cells, dead), dead_therms)]

\* the table to analyse grows by the row that follows
TableStep ==
    /\ apc = "input"
    /\ Len(table) < MaxTableRows
    /\ \E r \in inputs : table' = Append(table, [r EXCEPT !.Time = Len(table)])
    /\ UNCHANGED <<dead_cells, analyzed, apc, inputs, smvars, tlvars, rdvars, fnvars>>

\* run(df, path) up to the call of add_pass_fail_fast
Run ==
    /\ apc = "input"
    /\ table # <<>>
    /\ dead_cells' = find_dead_cells(table, detect_cells(table))
    /\ analyzed' = analyze_fast(table, detect_cells(table), dead_cells',
                                find_dead_therms(table))
    /\ apc' = "analyzed"
    /\ UNCHANGED <<table, inputs, smvars, tlvars, rdvars, fnvars>>

InitAnalysis ==
    /\ AnalysisStart /\ inputs = CellInputs
    /\ PassFailIdle /\ TimelineIdle /\ ReaderIdle /\ CallIdle

\* the same with the rows that decide "Required?"
InitRequired ==
    /\ AnalysisStart /\ inputs = LimitInputs
    /\ PassFailIdle /\ TimelineIdle /\ ReaderIdle /\ CallIdle

NextAnalysis == TableStep \/ Run

SpecAnalysis == InitAnalysis /\ [][NextAnalysis]_vars

SpecRequired == InitRequired /\ [][NextAnalysis]_vars

----------------------------------------------------------------------------
\* C7: a cell that find_dead_cells classified dead for the table is in the
\* Required_Cells of no row analyze_fast returns, whatever its voltage on
\* that row.
C7_DeadCellExclusion ==
    apc = "analyzed" =>
        \A k \in 1..Len(analyzed) : analyzed[k].Required_Cells \cap dead_cells = {}

\* a dead cell whose voltage on a row is at least Voltage_Min + Threshold
\* while balancing is required there and a live cell is listed
C7_Witness ==
    /\ apc = "analyzed"
    /\ \E k \in 1..Len(analyzed) : \E c \in dead_cells :
          /\ analyzed[k].Balancing_Required = "YES"
          /\ table[k].CellVoltage[c] >= table[k].Voltage_Min + 16
          /\ analyzed[k].Required_Cells # {}

----------------------------------------------------------------------------
(* C18, C19 *)

\* the Threshold and the Temp_Block of row k of the table
Threshold(k) == get_threshold(mode_of(table[k].Charging_Info), table[k].SoC)
TempBlock(k) ==
    \E x \in DOMAIN table[k].IntTherm :
        x \notin find_dead_therms(table) /\ table[k].IntTherm[x] > TEMP_LIMIT

\* C18: a row analyze_fast returns has Balancing_Required = YES if and only
\* if its Threshold is defined, Temp_Block is false, Voltage_Min >=
\* Balancing_Limit and Voltage_Max - Voltage_Min >= Threshold; a row at
\* equality in both comparisons is YES.
C18_RequiredNow ==
    apc = "analyzed" =>
        \A k \in 1..Len(analyzed) :
            /\ analyzed[k].Balancing_Required = "YES" <=>
                  /\ Threshold(k) # None
                  /\ ~TempBlock(k)
                  /\ table[k].Voltage_Min >= table[k].Balancing_Limit
                  /\ table[k].Voltage_Max - table[k].Voltage_Min >= Threshold(k)
            /\ ( /\ Threshold(k) # None /\ ~TempBlock(k)
                 /\ table[k].Voltage_Min = table[k].Balancing_Limit
                 /\ table[k].Voltage_Max - table[k].Voltage_Min = Threshold(k) )
                  => analyzed[k].Balancing_Required = "YES"

\* a row at equality in both comparisons is YES, and rows of the same table
\* are NO for the temperature, for the undefined Threshold, for the limit
\* and for the delta
C18_Witness ==
    /\ apc = "analyzed"
    /\ \E k \in 1..Len(analyzed) :
          /\ analyzed[k].Balancing_Required = "YES"
          /\ table[k].Voltage_Min = table[k].Balancing_Limit
          /\ table[k].Voltage_Max - table[k].Voltage_Min = Threshold(k)
    /\ \E k \in 1..Len(analyzed) :
          /\ analyzed[k].Balancing_Required = "NO"
          /\ TempBlock(k) /\ Threshold(k) # None
          /\ table[k].Voltage_Max - table[k].Voltage_Min >= Threshold(k)
          /\ table[k].Voltage_Min >= table[k].Balancing_Limit
    /\ \E k \in 1..Len(analyzed) :
          /\ analyzed[k].Balancing_Required = "NO"
          /\ ~TempBlock(k)
          /\ \/ Threshold(k) = None
             \/ table[k].Voltage_Min < table[k].Balancing_Limit
             \/ table[k].Voltage_Max - table[k].Voltage_Min < Threshold(k)

\* C19: on a row with Balancing_Required = YES, Required_Cells is exactly the
\* set of the cells that are not dead and whose voltage on that row is >=
\* Voltage_Min + Threshold; on a row with NO it is empty.
C19_RequiredSet ==
    apc = "analyzed" =>
        \A k \in 1..Len(analyzed) :
            analyzed[k].Required_Cells =
                IF analyzed[k].Balancing_Required = "YES"
                THEN {c \in DOMAIN table[k].CellVoltage :
                         /\ c \notin dead_cells
                         /\ table[k].CellVoltage[c] >= table[k].Voltage_Min + Threshold(k)}
                ELSE {}

\* a required row that lists a live cell exactly at Voltage_Min + Threshold
\* and leaves out a live cell below it, in a table with a row not required
C19_Witness ==
    /\ apc = "analyzed"
    /\ dead_cells = {}
    /\ \E k \in 1..Len(analyzed) : \E c \in Cells : \E d \in Cells :
          /\ analyzed[k].Balancing_Required = "YES"
          /\ table[k].CellVoltage[c] = table[k].Voltage_Min + Threshold(k)
          /\ c \in analyzed[k].Required_Cells
          /\ table[k].CellVoltage[d] < table[k].Voltage_Min + Threshold(k)
          /\ d \notin analyzed[k].Required_Cells
    /\ \E k \in 1..Len(analyzed) :
          /\ analyzed[k].Balancing_Required = "NO"
          /\ \E c \in Cells : table[k].CellVoltage[c] >= 3020

----------------------------------------------------------------------------
(* mask_decode and get_threshold, each called on its own.                  *)

\* masks with the lowest and the highest bit of each 16-bit word, and the
\* masks int() raises on
MaskInputs ==
    {Int64(w) : w \in [1..4 -> {0, 32769}]}
        \cup {NotInt(kind) : kind \in {"None", "nan", "text"}}

CallMaskDecode ==
    /\ call.fn = "none"
    /\ \E m0 \in MaskInputs, m1 \in MaskInputs :
         /\ call' = [fn |-> "mask_decode", m0 |-> m0, m1 |-> m1]
         /\ ret' = mask_decode(m0, m1)
    /\ UNCHANGED <<smvars, tlvars, anvars, rdvars>>

InitCall ==
    /\ CallIdle /\ ReaderIdle /\ AnalysisIdle /\ PassFailIdle /\ TimelineIdle

SpecMask == InitCall /\ [][CallMaskDecode]_vars

\* the modes analyze_fast derives and the states of charge: below 0, every
\* whole percent from 0 to 101, None (float() raises) and NaN
Modes == {"Charging", "Discharging", "Ready", "Unknown"}
SoCs == (-5..-3) \cup (0..101) \cup {None, NaN}

CallGetThreshold ==
    /\ call.fn = "none"
    /\ \E mode \in Modes, soc \in SoCs :
         /\ call' = [fn |-> "get_threshold", mode |-> mode, soc |-> soc]
         /\ ret' = get_threshold(mode, soc)
    /\ UNCHANGED <<smvars, tlvars, anvars, rdvars>>

SpecThreshold == InitCall /\ [][CallGetThreshold]_vars

----------------------------------------------------------------------------
\* C16: for integer masks m0 and m1 the list mask_decode returns is strictly
\* ascending (so without duplicates), holds cell i + 1 exactly when bit i of
\* m0 is set and cell 65 + i exactly when bit i of m1 is set, 0 <= i < 64,
\* and holds nothing outside 1..128.
C16_ActiveSetDecoder ==
    (call.fn = "mask_decode" /\ call.m0.is = "int" /\ call.m1.is = "int") =>
        /\ \A a \in 1..Len(ret) : \A b \in 1..Len(ret) : a < b => ret[a] < ret[b]
        /\ \A i \in 0..63 :
              /\ (i + 1 \in ToSet(ret)) <=> Bit(call.m0.w, i)
              /\ (65 + i \in ToSet(ret)) <=> Bit(call.m1.w, i)
        /\ ToSet(ret) \subseteq 1..128

\* both masks with bit 0 and bit 63 set: cells 1, 64, 65 and 128
C16_Witness ==
    /\ call.fn = "mask_decode" /\ call.m0.is = "int" /\ call.m1.is = "int"
    /\ Bit(call.m0.w, 0) /\ Bit(call.m0.w, 63)
    /\ Bit(call.m1.w, 0) /\ Bit(call.m1.w, 63)
    /\ {1, 64, 65, 128} \subseteq ToSet(ret)

\* C17: mask_decode returns a list whatever the masks are: the empty list
\* when neither mask is an integer, and when one of them is not, the cells
\* of the other mask alone.
C17_ActiveSetDecoderBadInput ==
    call.fn = "mask_decode" =>
        /\ (call.m0.is # "int" /\ call.m1.is # "int") => ret = <<>>
        /\ call.m0.is # "int" =>
              /\ ToSet(ret) \cap (1..64) = {}
              /\ call.m1.is = "int" =>
                    \A i \in 0..63 : (65 + i \in ToSet(ret)) <=> Bit(call.m1.w, i)
        /\ call.m1.is # "int" =>
              /\ ToSet(ret) \cap (65..128) = {}
              /\ call.m0.is = "int" =>
                    \A i \in 0..63 : (i + 1 \in ToSet(ret)) <=> Bit(call.m0.w, i)

\* a first mask that is NaN beside a second mask with bits set
C17_Witness ==
    /\ call.fn = "mask_decode"
    /\ call.m0.is = "nan" /\ call.m1.is = "int"
    /\ {65, 128} \subseteq ToSet(ret)

\* the band of the table as the claim lists it
BandValue(soc) ==
    IF soc < 5 THEN 61
    ELSE IF soc < 10 THEN 26
    ELSE IF soc < 90 THEN 16
    ELSE IF soc < 95 THEN 26
    ELSE IF soc < 97 THEN 31
    ELSE 51

\* C20: get_threshold returns 11 in mode Charging whatever the state of
\* charge; in another mode, for a state of charge in [0, 100) the value of
\* the one band [low, high) that holds it, and for a state of charge below
\* 0, at or above 100, or that is no number, None, with which no row is
\* required.
C20_ThresholdLookup ==
    call.fn = "get_threshold" =>
        /\ call.mode = "Charging" => ret = 11
        /\ (call.mode # "Charging" /\ ~IsMissing(call.soc)
               /\ 0 <= call.soc /\ call.soc < 100) =>
              /\ ret = BandValue(call.soc)
              /\ Cardinality({n \in 1..Len(DISCHARGE_LIMIT_TABLE) :
                                 InBand(n, call.soc)}) = 1
        /\ (call.mode # "Charging"
               /\ (IsMissing(call.soc) \/ call.soc < 0 \/ call.soc >= 100)) =>
              /\ ret = None
              /\ \A r \in LimitInputs : ~required_now(r, ret, FALSE)

\* a discharging row at exactly 100 percent
C20_Witness ==
    /\ call.fn = "get_threshold"
    /\ call.mode = "Discharging" /\ call.soc = 100
    /\ ret = None

----------------------------------------------------------------------------
(* parse_trc_fast.  A line of the file is what the code reads of it:       *)
(* whether TRC_LINE_RE matches, whether its date and time fields are a     *)
(* calendar instant (datetime() raises ValueError otherwise) and which,    *)
(* the id, the declared length and the payload tokens.                     *)

Line(shape, date_ok, t, cid, dlc, tokens) ==
    [shape |-> shape, date_ok |-> date_ok, t |-> t, cid |-> cid,
     dlc |-> dlc, tokens |-> tokens]

LineKinds ==
    { Line(FALSE, TRUE, 0, 1, 1, <<"0A">>),        \* no match of TRC_LINE_RE
      Line(TRUE, TRUE, 0, 1, 1, <<"0A">>),         \* a frame of one byte
      Line(TRUE, TRUE, 1, 2, 2, <<"0A", "FF">>),   \* a frame of two bytes, later
      Line(TRUE, TRUE, 1, 1, 0, <<>>),             \* a frame without payload
      Line(TRUE, FALSE, 0, 1, 1, <<"0A">>),        \* month 13
      Line(TRUE, TRUE, 1, 1, 2, <<"0A">>),         \* fewer tokens than declared
      Line(TRUE, TRUE, 1, 1, 1, <<"ZZ">>),         \* a token that is not hexadecimal
      Line(TRUE, TRUE, 1, 1, 1, <<"0A", "ZZ">>),   \* the same behind the declared length
      Line(TRUE, TRUE, 1, 1, 1, <<"1FF">>) }       \* a hexadecimal token above 255

\* int(x, 16); NaN stands for the ValueError of a token that is no number
HexValue(x) ==
    CASE x = "0A" -> 10
      [] x = "FF" -> 255
      [] x = "1FF" -> 511
      [] OTHER -> NaN

\* m.group(10).split()[:dlc]
Taken(l) == SubSeq(l.tokens, 1, IF l.dlc < Len(l.tokens) THEN l.dlc ELSE Len(l.tokens))

\* one of the conversions of lines 82-102 raises ValueError: datetime(), or
\* int(x, 16), or bytes() of a value above 255
Raises(l) ==
    \/ ~l.date_ok
    \/ \E n \in 1..Len(Taken(l)) : HexValue(Taken(l)[n]) = NaN \/ HexValue(Taken(l)[n]) > 255

\* base_dt: the instant of the first frame
BaseOf(fs, l) == IF fs = <<>> THEN l.t ELSE fs[1].ts_raw

\* the tuple (ts_raw, t, can_id, data) appended for the line
Record(l, base) ==
    [ts_raw |-> l.t, t |-> l.t - base, can_id |-> l.cid,
     data |-> [n \in 1..Len(Taken(l)) |-> HexValue(Taken(l)[n])]]

\* one iteration of "for line in f"
ReadLine ==
    /\ rpc = "read"
    /\ Len(lines) < MaxLines
    /\ \E l \in LineKinds :
         /\ lines' = Append(lines, l)
         /\ IF ~l.shape THEN UNCHANGED <<parsed, rpc>>
            ELSE IF Raises(l) THEN rpc' = "raised" /\ UNCHANGED parsed
            ELSE /\ parsed' = Append(parsed, Record(l, BaseOf(parsed, l)))
                 /\ UNCHANGED rpc
    /\ UNCHANGED <<smvars, tlvars, anvars, fnvars>>

\* the end of the file: "if not frames: raise ValueError", else return frames
EndOfFile ==
    /\ rpc = "read"
    /\ rpc' = IF parsed = <<>> THEN "no_frames" ELSE "returned"
    /\ UNCHANGED <<lines, parsed, smvars, tlvars, anvars, fnvars>>

InitParse ==
    /\ ReaderIdle /\ CallIdle /\ AnalysisIdle /\ PassFailIdle /\ TimelineIdle

NextParse == ReadLine \/ EndOfFile

SpecParse == InitParse /\ [][NextParse]_vars

----------------------------------------------------------------------------
(* C12, C13, C14 *)

\* the line read by this step
LineRead == lines'[Len(lines')]
Reading == Len(lines') > Len(lines)

\* C12: a line that matches the shape and declares more payload bytes than
\* it has tokens produces no Record.
C12_LengthCheck ==
    [][(Reading /\ LineRead.shape /\ LineRead.dlc > Len(LineRead.tokens))
          => parsed' = parsed]_vars

\* a line the claim calls malformed, and a line that is well-formed
Malformed(l) ==
    \/ ~l.shape
    \/ ~l.date_ok
    \/ \E n \in 1..Len(l.tokens) : l.tokens[n] \notin {"0A", "FF", "1FF"}
WellFormed(l) ==
    /\ l.shape /\ l.date_ok /\ l.dlc <= Len(l.tokens)
    /\ \A n \in 1..Len(l.tokens) : l.tokens[n] \in {"0A", "FF"}

\* C13: reading a malformed line adds no Record and does not end the read;
\* reading a well-formed line, before or after it, appends its Record.
C13_MalformedDropped ==
    [][Reading =>
          /\ Malformed(LineRead) => (parsed' = parsed /\ rpc' = "read")
          /\ WellFormed(LineRead) =>
                /\ rpc' = "read"
                /\ Len(parsed') = Len(parsed) + 1
                /\ parsed'[Len(parsed')].can_id = LineRead.cid
                /\ parsed'[Len(parsed')].ts_raw = LineRead.t]_vars

\* C14: parse_trc_fast raises if and only if no line yielded a Record, and
\* returns a non-empty list otherwise.
C14_ZeroRecordsFatal ==
    /\ rpc \in {"no_frames", "raised"} => parsed = <<>>
    /\ rpc = "returned" => parsed # <<>>

----------------------------------------------------------------------------
(* C15 *)

\* the frame of row r of the sorted timeline
FrameOf(r) == frames[order[r]]

\* the frame's id is unknown to the schema, or its decode raises
NoDecode(f) == f.cid \notin DOMAIN msg_by_id \/ f.data = 0

\* signal s belongs to the message of frame f
OwnSignal(f, s) == f.cid \in DOMAIN msg_by_id /\ s \in msg_by_id[f.cid]

\* C15: a frame whose id is unknown or whose decode raises still gets its row
\* and records no signal for it; a frame records only signals of its own
\* message; and in the filled timeline every other signal of a row has the
\* value of the row above (no value on the first row), never 0 or nothing in
\* place of a value it had.
C15_DecoderLocal ==
    /\ \A n \in 1..Len(frames) :
          /\ \A c \in BaseCols : \E x \in 1..Len(idx_store[c]) : idx_store[c][x] = n - 1
          /\ \A s \in FillCols :
                (\E x \in 1..Len(idx_store[s]) : idx_store[s][x] = n - 1)
                    => (~NoDecode(frames[n]) /\ OwnSignal(frames[n], s))
    /\ tpc = "filled" =>
          \A r \in TRows : \A s \in FillCols :
              (NoDecode(FrameOf(r)) \/ ~OwnSignal(FrameOf(r), s)) =>
                  timeline[r][s] = IF r = 1 THEN NaN ELSE timeline[r - 1][s]

\* in the filled timeline a row of an unknown id and a row whose decode
\* raised carry the value a row above them decoded, and a row of another
\* message carries it too
C15_Witness ==
    /\ tpc = "filled"
    /\ \E r \in TRows : \E s \in FillCols :
          /\ r > 1 /\ NoDecode(FrameOf(r))
          /\ timeline[r][s] # NaN
    /\ \E r \in TRows : \E s \in FillCols :
          /\ r > 1 /\ ~NoDecode(FrameOf(r)) /\ ~OwnSignal(FrameOf(r), s)
          /\ timeline[r][s] # NaN

----------------------------------------------------------------------------
(* main: decode_frames_fast, forward_fill_signals and run, one after the   *)
(* other on the same frames.                                               *)

\* get(r, name): the value of a column, None for a column the table lacks
Col(row, name) == IF name \in DOMAIN row THEN row[name] ELSE None

\* a row of the timeline as analyze_fast reads it; the schema of the model
\* has no mask, cell or thermistor signals
TableOf(tl) ==
    [k \in 1..Len(tl) |->
        [Time |-> tl[k]["Time"], SoC |-> Col(tl[k], "SoC"),
         Charging_Info |-> Col(tl[k], "Charging_Info"),
         Flag_Balancing_Active |-> "none",
         Balancing_Limit |-> Col(tl[k], "Balancing_Limit"),
         Voltage_Min |-> Col(tl[k], "Voltage_Min"),
         Voltage_Max |-> Col(tl[k], "Voltage_Max"),
         BalancingMask0 |-> NotInt("None"), BalancingMask1 |-> NotInt("None"),
         CellVoltage |-> <<>>, IntTherm |-> <<>>]]

\* run(df, path) on the filled timeline: the analysis, then add_pass_fail_fast
\* with its own sort by Time
RunOnTimeline ==
    /\ tpc = "filled"
    /\ apc = "input"
    /\ table' = TableOf(timeline)
    /\ dead_cells' = find_dead_cells(table', detect_cells(table'))
    /\ analyzed' = analyze_fast(table', detect_cells(table'), dead_cells',
                                find_dead_therms(table'))
    /\ apc' = "analyzed"
    /\ IF analyzed' = <<>>
       THEN UNCHANGED <<df, st, pc>>
       ELSE \E p \in SortOrders(analyzed') :
              /\ df' = [r \in 1..Len(analyzed') |-> analyzed'[p[r]]]
              /\ st' = Evaluated(df')
              /\ pc' = "done"
    /\ UNCHANGED <<deltas, inputs, tlvars, rdvars, fnvars>>

NextMain ==
    DecodeFrame \/ DecodeNoFrames \/ Materialize \/ forward_fill_signals \/ RunOnTimeline

SpecMain == InitTimeline /\ [][NextMain]_vars

\* C11: every frame handed to decode_frames_fast has its row, also a frame of
\* an unknown id or one whose decode raises; the timeline, the filled
\* timeline, the analysed table and the table of add_pass_fail_fast have as
\* many rows as there are frames, and each of them ends with one verdict,
\* PASS or FAIL.
C11_RowConservation ==
    /\ \A c \in BaseCols : Len(idx_store[c]) = Len(frames)
    /\ tpc \in {"table", "filled"} => Len(timeline) = Len(frames)
    /\ apc = "analyzed" =>
          /\ Len(table) = Len(frames)
          /\ Len(analyzed) = Len(frames)
          /\ Len(df) = Len(frames)
          /\ Len(st.passfail) = Len(frames)
          /\ Len(st.remark) = Len(frames)
          /\ \A k \in 1..Len(st.passfail) : st.passfail[k] \in {"PASS", "FAIL"}

\* three frames, one of an unknown id, one whose decode raised and one that
\* decoded, analysed and given their verdicts
C11_Witness ==
    /\ apc = "analyzed" /\ pc = "done"
    /\ Len(frames) = 3 /\ Len(st.passfail) = 3
    /\ \E n \in 1..3 : frames[n].cid \notin DOMAIN msg_by_id
    /\ \E n \in 1..3 : frames[n].cid \in DOMAIN msg_by_id /\ frames[n].data = 0
    /\ \E n \in 1..3 : ~NoDecode(frames[n])

----------------------------------------------------------------------------
(* run on a table with missing inputs.                                     *)

\* a row with every input present, required in both modes
FullRow(ci) ==
    TableRow(50, ci, 3000, 3016, 25, Int64(<<1, 0, 0, 0>>),
             [c \in Cells |-> IF c = 1 THEN 3020 ELSE 3000])

\* that row, and the same with one of its inputs absent (None) or never
\* observed or unparsable (NaN)
MissingInputs ==
    UNION {
        {FullRow(ci)}
        \cup {[FullRow(ci) EXCEPT !.SoC = x] : x \in {None, NaN}}
        \cup {[FullRow(ci) EXCEPT !.Balancing_Limit = NaN],
              [FullRow(ci) EXCEPT !.Voltage_Min = NaN],
              [FullRow(ci) EXCEPT !.Voltage_Max = None],
              [FullRow(ci) EXCEPT !.CellVoltage[1] = NaN],
              [FullRow(ci) EXCEPT !.IntTherm[1] = NaN],
              [FullRow(ci) EXCEPT !.BalancingMask0 = NotInt("nan")],
              [FullRow(ci) EXCEPT !.Flag_Balancing_Active = "none"]}
        : ci \in ChargingInfos \cup {NaN}}
    \cup {[FullRow(0) EXCEPT !.CellVoltage[1] = NaN,
                             !.Flag_Balancing_Active = "none"]}

\* run(df, path): the analysis and add_pass_fail_fast, with its sort by Time
RunTable ==
    /\ apc = "input"
    /\ table # <<>>
    /\ dead_cells' = find_dead_cells(table, detect_cells(table))
    /\ analyzed' = analyze_fast(table, detect_cells(table), dead_cells',
                                find_dead_therms(table))
    /\ apc' = "analyzed"
    /\ \E p \in SortOrders(analyzed') :
         /\ df' = [r \in 1..Len(analyzed') |-> analyzed'[p[r]]]
         /\ st' = Evaluated(df')
         /\ pc' = "done"
    /\ UNCHANGED <<table, inputs, deltas, tlvars, rdvars, fnvars>>

InitMissing ==
    /\ AnalysisStart /\ inputs = MissingInputs
    /\ PassFailIdle /\ TimelineIdle /\ ReaderIdle /\ CallIdle

NextMissing == TableStep \/ RunTable

SpecMissing == InitMissing /\ [][NextMissing]_vars

\* the row is not in mode Charging
NotCharging(r) == IsMissing(r.Charging_Info) \/ r.Charging_Info \notin {1, 17, 33}

\* C21: run on a table with absent or unparsable inputs ends with a verdict
\* for every row, and a row without Voltage_Min, Voltage_Max or
\* Balancing_Limit, or without state of charge outside mode Charging, is not
\* required and has no Required_Cells.
C21_MissingInputDegradation ==
    apc = "analyzed" =>
        /\ pc = "done"
        /\ Len(analyzed) = Len(table)
        /\ Len(st.passfail) = Len(table)
        /\ \A k \in 1..Len(table) :
              ( \/ IsMissing(table[k].Voltage_Min)
                \/ IsMissing(table[k].Voltage_Max)
                \/ IsMissing(table[k].Balancing_Limit)
                \/ (NotCharging(table[k]) /\ IsMissing(table[k].SoC)) )
                  => /\ analyzed[k].Balancing_Required = "NO"
                     /\ analyzed[k].Required_Cells = {}

\* a table with a row without Balancing_Limit, a discharging row without
\* state of charge and a charging row without it, which stays required
C21_Witness ==
    /\ apc = "analyzed" /\ pc = "done"
    /\ \E k \in 1..Len(table) :
          IsMissing(table[k].Balancing_Limit) /\ analyzed[k].Balancing_Required = "NO"
    /\ \E k \in 1..Len(table) :
          /\ IsMissing(table[k].SoC) /\ NotCharging(table[k])
          /\ analyzed[k].Balancing_Required = "NO"
    /\ \E k \in 1..Len(table) :
          /\ IsMissing(table[k].SoC) /\ ~NotCharging(table[k])
          /\ analyzed[k].Balancing_Required = "YES"

----------------------------------------------------------------------------
(* add_pass_fail_fast called on a table whose rows are in any order.       *)

\* the times and the kinds of the rows of that table
AnyTimes == {0, 4001, 9001}
AnyKinds ==
    { <<FALSE, "inactive", {}, {1}>>, <<TRUE, "inactive", {1}, {}>>,
      <<TRUE, "active", {1}, {1}>>, <<TRUE, "active", {1}, {}>>,
      <<TRUE, "active", {1}, {2}>> }

\* the table handed to add_pass_fail_fast grows by a row
AnalyzedStep ==
    /\ pc = "loop"
    /\ Len(analyzed) < MaxRows
    /\ \E kind \in AnyKinds, t \in AnyTimes :
         analyzed' = Append(analyzed, Row(t, kind[1], kind[2], kind[3], kind[4]))
    /\ UNCHANGED <<table, dead_cells, apc, inputs, df, st, pc, deltas,
                   tlvars, rdvars, fnvars>>

\* add_pass_fail_fast(df) as a whole: the sort by Time, the loop, the last
\* finalize_segment
AddPassFail ==
    /\ pc = "loop"
    /\ analyzed # <<>>
    /\ \E p \in SortOrders(analyzed) :
         /\ df' = [r \in 1..Len(analyzed) |-> analyzed[p[r]]]
         /\ st' = Evaluated(df')
         /\ pc' = "done"
    /\ UNCHANGED <<deltas, anvars, tlvars, rdvars, fnvars>>

NextSort == AnalyzedStep \/ AddPassFail

SpecSort == InitTimeline /\ [][NextSort]_vars

\* the timers that run after n rows of df start no later than row n
TimersBehind(n) ==
    LET s == LoopOver(df, n)
        t == df[n].Time
    IN  /\ s.prev_t = t
        /\ s.pending_activation_start_time # None => t - s.pending_activation_start_time >= 0
        /\ s.mismatch_start_time # None => t - s.mismatch_start_time >= 0
        /\ s.current_seg_start_time # None => t - s.current_seg_start_time >= 0

\* C22: whatever the order of the rows handed to add_pass_fail_fast, the loop
\* reads them in non-decreasing order of Time (the same rows, none lost), so
\* the gap to the previous row and the time since the start of every running
\* timer are never negative.
C22_Ordering ==
    pc = "done" =>
        /\ Len(df) = Len(analyzed)
        /\ \E p \in Permutations(1..Len(df)) : \A r \in 1..Len(df) : df[r] = analyzed[p[r]]
        /\ \A n \in 1..Len(df) :
              /\ n > 1 => df[n].Time - df[n - 1].Time >= 0
              /\ TimersBehind(n)

\* rows handed over latest first, read in order of Time, the last of them
\* failing the activation window counted from the first
C22_Witness ==
    /\ pc = "done"
    /\ Len(analyzed) = 3
    /\ analyzed[1].Time > analyzed[2].Time /\ analyzed[2].Time > analyzed[3].Time
    /\ st.passfail = <<"PASS", "PASS", "FAIL">>
    /\ HasText(2, ActivationText)

----------------------------------------------------------------------------
\* the loop reads a row that is more than 5 s after the row before it
ReadsAfterGap ==
    /\ Len(df) > 0
    /\ Len(df') = Len(df) + 1
    /\ df'[Len(df')].Time - df[Len(df)].Time > 50000

\* the reasons of row k (0-based) in an evaluation state
TextsOf(s, k) ==
    {s.remark[k + 1][n] : n \in {m \in 1..Len(s.remark[k + 1]) : s.remark[k + 1][m] # OK}}

\* C23 as stated: reading a row that follows a gap of more than 5 s leaves
\* the verdict and the remark of every earlier row as they were (the reset
\* checks no duration and marks no row FAIL).
C23_GapResetMarksNothing ==
    [][ReadsAfterGap =>
          /\ SubSeq(st'.passfail, 1, Len(df)) = st.passfail
          /\ SubSeq(st'.remark, 1, Len(df)) = st.remark]_vars

\* C23 (amended): reading row i that follows a gap of more than 5 s closes
\* the open segment at row i - 1: the segment's duration from its first row
\* to row i - 1 (the gap is not counted) is checked against the bound of its
\* class, and row i - 1 gets the "too long" reason, and FAIL, exactly when it
\* exceeds it.  The rows before i - 1 are left as they were, the activation
\* and mismatch timers are cleared unchecked, and row i gets no reason that
\* counts time from before the gap.
C23_GapResetClosesSegment ==
    [][ReadsAfterGap =>
          LET i == Len(df)
              a == st.current_seg_start_idx
              viol == IF st.current_seg_state = "None" THEN {}
                      ELSE DurationRule(a, i - 1)
          IN  /\ SubSeq(st'.passfail, 1, i - 1) = SubSeq(st.passfail, 1, i - 1)
              /\ SubSeq(st'.remark, 1, i - 1) = SubSeq(st.remark, 1, i - 1)
              /\ TextsOf(st', i - 1) = TextsOf(st, i - 1) \cup viol
              /\ st'.passfail[i] = (IF viol # {} THEN "FAIL" ELSE st.passfail[i])
              /\ TextsOf(st', i) \subseteq {ParityMixText}
              /\ st'.pending_activation_start_time \in {None, df'[i + 1].Time}
              /\ st'.mismatch_start_time \in {None, df'[i + 1].Time}
              /\ st'.current_seg_start_time \in {None, df'[i + 1].Time}]_vars

\* a segment that lasted too long, closed by a gap before a row of its class
C23_Witness ==
    \E k \in Rows :
        /\ GapBefore(k)
        /\ Class(k) = Class(k - 1)
        /\ Class(k) \in {"ODD", "EVEN", "REST"}
        /\ DurationTexts(k - 1) # {}
        /\ PassFail(k - 1) = "FAIL"

----------------------------------------------------------------------------
\* row k is required and flagged active with odd and even cells active
ActiveMix(k) == Req(k) /\ Flag(k) /\ Odd(ActSet(k)) /\ Even(ActSet(k))

\* C24 as stated: every row that is required and flagged active with both an
\* odd and an even cell active is FAIL with the parity-mix reason, whatever
\* its required set.
C24_AnyParityMixFails ==
    \A k \in Rows :
        ActiveMix(k) => /\ PassFail(k) = "FAIL"
                        /\ HasText(k, ParityMixText)

\* C24 (amended): a row that is required and flagged active with both an odd
\* and an even cell active is never classified into a segment (no segment is
\* open once it has been read), and it carries the parity-mix reason, and is
\* FAIL, exactly when its required set itself holds both an odd and an even
\* cell.
C24_ParityMixWhenBothRequired ==
    \A k \in Rows :
        ActiveMix(k) =>
            /\ LoopOver(df, k + 1).current_seg_state = "None"
            /\ LoopOver(df, k + 1).current_seg_start_idx = None
            /\ HasText(k, ParityMixText) <=> (Odd(ReqSet(k)) /\ Even(ReqSet(k)))
            /\ HasText(k, ParityMixText) => PassFail(k) = "FAIL"

\* both cases: a mix under a one-parity requirement that passes, after a mix
\* under a two-parity requirement that fails and closes an open segment
C24_Witness ==
    \E j \in Rows : \E k \in Rows :
        /\ j > 0 /\ Class(j - 1) # "None"
        /\ ActiveMix(j) /\ Odd(ReqSet(j)) /\ Even(ReqSet(j))
        /\ PassFail(j) = "FAIL"
        /\ k > j
        /\ ActiveMix(k) /\ ~Even(ReqSet(k))
        /\ PassFail(k) = "PASS"

----------------------------------------------------------------------------
\* the row of the input table that row k of df was analysed from (run gives
\* the rows of a table distinct times)
Input(k) == table[T(k) + 1]

\* RequiredNow of that row, from the inputs
RequiredNow(k) ==
    LET r == Input(k)
        thr == Threshold(T(k) + 1)
    IN  /\ thr # None
        /\ ~TempBlock(T(k) + 1)
        /\ ~IsMissing(r.Voltage_Min) /\ ~IsMissing(r.Voltage_Max)
        /\ ~IsMissing(r.Balancing_Limit)
        /\ r.Voltage_Min >= r.Balancing_Limit
        /\ r.Voltage_Max - r.Voltage_Min >= thr

\* C25 as stated: on every row the "required" the trackers use is true
\* exactly when the row's Required_Cells is not empty.
C25_RequiredIsRequiredSet ==
    apc = "analyzed" =>
        \A k \in Rows : required_of(df[k + 1]) <=> ReqSet(k) # {}

\* C25 (amended): on every row the "required" the trackers use is RequiredNow
\* (the row's Balancing_Required is YES): once the row is read the activation
\* timer runs exactly when RequiredNow holds and the flag is not active, and
\* the row is classified REST/ODD/EVEN exactly when RequiredNow holds, the
\* flag is active and the active cells are not of both parities.  A row with
\* Required_Cells not empty has RequiredNow; a row with RequiredNow may have
\* Required_Cells empty.
C25_RequiredIsRequiredNow ==
    apc = "analyzed" =>
        \A k \in Rows :
            LET s == LoopOver(df, k + 1)
            IN  /\ required_of(df[k + 1]) <=> RequiredNow(k)
                /\ s.pending_activation_start_time # None <=> (RequiredNow(k) /\ ~Flag(k))
                /\ s.current_seg_state =
                      (IF RequiredNow(k) /\ Flag(k)
                       THEN IF ActSet(k) = {} THEN "REST"
                            ELSE IF ~Even(ActSet(k)) THEN "ODD"
                            ELSE IF ~Odd(ActSet(k)) THEN "EVEN"
                            ELSE "None"
                       ELSE "None")
                /\ ReqSet(k) # {} => RequiredNow(k)

\* rows with RequiredNow and no required cell: one starts the activation
\* timer, one is classified ODD
C25_Witness ==
    /\ apc = "analyzed"
    /\ \E k \in Rows :
          /\ RequiredNow(k) /\ ReqSet(k) = {} /\ ~Flag(k)
          /\ LoopOver(df, k + 1).pending_activation_start_time = T(k)
    /\ \E k \in Rows :
          /\ RequiredNow(k) /\ ReqSet(k) = {} /\ Flag(k)
          /\ LoopOver(df, k + 1).current_seg_state = "ODD"

----------------------------------------------------------------------------
\* a mismatch is ongoing when row k is read: row k - 1 mismatched, no gap
\* reset comes between the two rows, and row k mismatches too
Ongoing(k) ==
    /\ k > 0
    /\ Description(k - 1) # <<>>
    /\ ~GapBefore(k)
    /\ Description(k) # <<>>

MismatchKinds == {"Cell mismatch >"}

\* C26: while a mismatch is ongoing, a row whose description differs from
\* the one of the row before it restarts the timer at its own time, caches
\* its description and carries no "Cell mismatch" reason; a row whose
\* description is unchanged leaves the timer start and the cache untouched.
C26_MismatchRestart ==
    \A k \in Rows :
        Ongoing(k) =>
            LET before == LoopOver(df, k)
                after  == LoopOver(df, k + 1)
            IN  /\ before.mismatch_active
                /\ before.mismatch_reason_cached = Description(k - 1)
                /\ after.mismatch_active
                /\ after.mismatch_reason_cached = Description(k)
                /\ IF Description(k) # Description(k - 1)
                   THEN /\ after.mismatch_start_time = T(k)
                        /\ ~HasKind(k, MismatchKinds)
                   ELSE after.mismatch_start_time = before.mismatch_start_time

\* a row more than 0.4 s into a mismatch changes the description and passes,
\* and the next row, with that description, counts from it
C26_Witness ==
    \E k \in Rows :
        /\ k + 1 < NRows
        /\ Ongoing(k) /\ Ongoing(k + 1)
        /\ Description(k) # Description(k - 1)
        /\ Description(k + 1) = Description(k)
        /\ ~AlternatingCase(k)
        /\ T(k) - LoopOver(df, k).mismatch_start_time > 4000
        /\ PassFail(k) = "PASS"
        /\ LoopOver(df, k + 2).mismatch_start_time = T(k)

----------------------------------------------------------------------------
\* the grace of a mismatching row k, in ticks and as the reason prints it
GraceOf(k) == IF AlternatingCase(k) THEN 10000 ELSE 4000
GracePrinted(k) == IF AlternatingCase(k) THEN 10 ELSE 4

\* C27: a mismatching row has the grace 1.0 s exactly when balancing is
\* required, the flag is active, the required cells hold both parities and
\* the active cells hold exactly one; every other mismatching row has 0.4 s.
\* The row carries a "Cell mismatch" reason, which then names that grace and
\* the row's description and makes the row FAIL, if and only if its time
\* minus the timer start is more than that grace; a row that does not
\* mismatch carries none.
C27_MismatchGraceSelection ==
    \A k \in Rows :
        IF Description(k) = <<>> THEN ~HasKind(k, MismatchKinds)
        ELSE LET start == LoopOver(df, k + 1).mismatch_start_time
             IN  /\ start # None
                 /\ HasKind(k, MismatchKinds) <=> T(k) - start > GraceOf(k)
                 /\ HasKind(k, MismatchKinds) =>
                       /\ PassFail(k) = "FAIL"
                       /\ HasText(k, Text("Cell mismatch >", GracePrinted(k), Description(k)))
                       /\ ~HasText(k, Text("Cell mismatch >", 14 - GracePrinted(k), Description(k)))

\* an alternating-sequence mismatch that passes 0.9 s after its start and
\* fails, with the grace 1.0 s, 1.3 s after it
C27_Witness ==
    \E j \in Rows : \E k \in Rows :
        /\ j < k
        /\ AlternatingCase(j) /\ AlternatingCase(k)
        /\ Description(j) # <<>> /\ Description(k) # <<>>
        /\ T(j) - LoopOver(df, j + 1).mismatch_start_time = 9000
        /\ ~HasKind(j, MismatchKinds)
        /\ T(k) - LoopOver(df, k + 1).mismatch_start_time = 13000
        /\ HasText(k, Text("Cell mismatch >", 10, Description(k)))

----------------------------------------------------------------------------
\* (a) required and flagged active, cells active, some missing or extra
SetMismatch(k) ==
    /\ Req(k) /\ Flag(k)
    /\ ActSet(k) # {}
    /\ (df[k + 1].Missing # {} \/ df[k + 1].Extra # {})

\* (b) cells active though balancing is not both required and flagged active
UnexpectedActive(k) == ~(Req(k) /\ Flag(k)) /\ ActSet(k) # {}

\* C28: once row k is read the mismatch timer runs if and only if the row is
\* required and flagged active with active cells and a missing or an extra
\* cell, or is not both required and flagged active and has active cells; on
\* every other row, a required and flagged row with no active cell included,
\* the timer and the cached description are cleared.
C28_MismatchDetection ==
    \A k \in Rows :
        LET after == LoopOver(df, k + 1)
        IN  IF SetMismatch(k) \/ UnexpectedActive(k)
            THEN /\ after.mismatch_active
                 /\ after.mismatch_start_time # None
                 /\ after.mismatch_reason_cached # <<>>
            ELSE /\ ~after.mismatch_active
                 /\ after.mismatch_start_time = None
                 /\ after.mismatch_reason_cached = <<>>
                 /\ ~HasKind(k, MismatchKinds)

\* a running mismatch timer cleared by a required and flagged row that has
\* no active cell and so misses every required cell; rows of both kinds of
\* mismatch
C28_Witness ==
    /\ \E k \in Rows :
          /\ k > 0
          /\ LoopOver(df, k).mismatch_active
          /\ ~GapBefore(k)
          /\ Req(k) /\ Flag(k) /\ ActSet(k) = {} /\ df[k + 1].Missing # {}
          /\ LoopOver(df, k + 1).mismatch_start_time = None
    /\ \E k \in Rows : SetMismatch(k)
    /\ \E k \in Rows : UnexpectedActive(k)

----------------------------------------------------------------------------
\* rows a..k are equally classified and a is the first row of that run,
\* gaps not looked at
RunFrom(a, k) ==
    /\ a <= k
    /\ Class(a) # "None"
    /\ \A j \in a..k : Class(j) = Class(a)
    /\ (a = 0 \/ Class(a - 1) # Class(a))

\* the segment open once row k is read is the one that started at row a
OpenFrom(a, k) ==
    LET after == LoopOver(df, k + 1)
    IN  /\ after.current_seg_state = Class(k)
        /\ after.current_seg_start_idx = a
        /\ after.current_seg_start_time = T(a)
        /\ after.seg_req_odd <=> \E j \in a..k : Odd(ReqSet(j))
        /\ after.seg_req_even <=> \E j \in a..k : Even(ReqSet(j))

\* no segment is open once row k is read
NoneOpen(k) ==
    LET after == LoopOver(df, k + 1)
    IN  /\ after.current_seg_state = "None"
        /\ after.current_seg_start_idx = None
        /\ after.current_seg_start_time = None
        /\ ~after.seg_req_odd /\ ~after.seg_req_even

\* C29 as stated: after an unclassified row no segment is open, and after a
\* classified row k the open segment is the maximal run of consecutive
\* equally-classified rows that ends with k, with the "odd required" and
\* "even required" of its rows ORed.
C29_SegmentsAreMaximalRuns ==
    \A k \in Rows :
        IF Class(k) = "None" THEN NoneOpen(k)
        ELSE \A a \in Rows : RunFrom(a, k) => OpenFrom(a, k)

\* C29 (amended): a row is classified only when balancing is required and
\* the flag is active (REST with no active cell, ODD with odd cells only,
\* EVEN with even cells only).  After an unclassified row no segment is
\* open; after a classified row k the open segment is the maximal run of
\* consecutive equally-classified rows ending with k that no gap of more
\* than 5 s interrupts, starting at the first row of that run, with the "odd
\* required" and "even required" of its rows ORed.
C29_SegmentsAreRunsBetweenGaps ==
    \A k \in Rows :
        IF Class(k) = "None" THEN NoneOpen(k)
        ELSE /\ \E a \in Rows : SegmentFrom(a, k)
             /\ \A a \in Rows : SegmentFrom(a, k) => OpenFrom(a, k)

\* a REST segment whose second row requires less than its first, cut by a
\* gap before a third REST row that opens a segment of its own
C29_Witness ==
    \E a \in Rows : \E k \in Rows :
        /\ a < k /\ k + 1 < NRows
        /\ SegmentFrom(a, k)
        /\ LoopOver(df, k + 1).seg_req_even /\ ~Even(ReqSet(k))
        /\ Class(k + 1) = Class(k) /\ GapBefore(k + 1)
        /\ LoopOver(df, k + 2).current_seg_start_idx = k + 1

----------------------------------------------------------------------------
\* the segment that ends with row b is closed by the classification of the
\* next row
ClosedByClass(b) == b + 1 < NRows /\ Class(b + 1) # Class(b)

\* C30 as stated: when a closed segment lasted longer than its bound, the
\* "too long" reason is on the row whose different or missing classification
\* closed it.
C30_ViolationOnClosingRow ==
    \A a \in Rows : \A b \in Rows :
        (SegmentFrom(a, b) /\ ClosedByClass(b) /\ DurationRule(a, b) # {}) =>
            /\ PassFail(b + 1) = "FAIL"
            /\ DurationRule(a, b) \subseteq DurationTexts(b + 1)

\* C30 (amended): when a closed segment lasted longer than its bound, the
\* "too long" reason is on the last row of the segment, which is FAIL: the
\* row before the one that closed it, or the last row of the trace.  The row
\* whose different or missing classification closed the segment does not get
\* that reason.
C30_ViolationOnLastRow ==
    \A a \in Rows : \A b \in Rows :
        (Closed(a, b) /\ DurationRule(a, b) # {}) =>
            /\ PassFail(b) = "FAIL"
            /\ DurationRule(a, b) \subseteq DurationTexts(b)
            /\ ClosedByClass(b) => DurationRule(a, b) \cap DurationTexts(b + 1) = {}

\* a segment that lasted too long, closed by a row of another class that
\* stays PASS
C30_Witness ==
    \E a \in Rows : \E b \in Rows :
        /\ SegmentFrom(a, b) /\ ClosedByClass(b)
        /\ DurationRule(a, b) # {}
        /\ PassFail(b) = "FAIL"
        /\ PassFail(b + 1) = "PASS"

----------------------------------------------------------------------------
(* add_pass_fail_fast on rows spaced around the REST bound.                *)

RestDeltas == {1, REST_NORMAL_MAX_SEC, REST_NORMAL_MAX_SEC + 1}

InitRest == Start /\ deltas = RestDeltas /\ TimelineIdle /\ AnalysisIdle /\ ReaderIdle /\ CallIdle

SpecRest == InitRest /\ [][Next]_vars

\* both an odd and an even cell were required on rows of a..b
BothRequired(a, b) ==
    (\E k \in a..b : Odd(ReqSet(k))) /\ (\E k \in a..b : Even(ReqSet(k)))

----------------------------------------------------------------------------
\* the cells whose bit is set in the masks of row k of the table
MaskCells(k) == ToSet(mask_decode(table[k].BalancingMask0, table[k].BalancingMask1))

\* C32 as stated: a dead cell is never in the Missing nor in the Extra set of
\* a row.
C32_DeadCellsOutOfMismatch ==
    apc = "analyzed" =>
        \A k \in 1..Len(analyzed) : \A c \in dead_cells :
            /\ c \notin analyzed[k].Missing
            /\ c \notin analyzed[k].Extra

\* C32 (amended): a dead cell is never in the Required_Cells nor in the
\* Missing set of a row; it is in the Active_Cells, and then in the Extra
\* set, of every row whose mask has its bit set.
C32_DeadCellsOutOfRequired ==
    apc = "analyzed" =>
        \A k \in 1..Len(analyzed) : \A c \in dead_cells :
            /\ c \notin analyzed[k].Required_Cells
            /\ c \notin analyzed[k].Missing
            /\ c \in analyzed[k].Active_Cells <=> c \in MaskCells(k)
            /\ c \in analyzed[k].Extra <=> c \in MaskCells(k)

\* a dead cell whose voltage on one row would have qualified: it is not
\* required nor missing there, and with its mask bit set it is extra on a
\* row that is required and flagged active, which makes the row mismatch
C32_Witness ==
    /\ apc = "analyzed"
    /\ \E c \in dead_cells : \E k \in 1..Len(analyzed) :
          /\ required_of(analyzed[k])
          /\ flag_active_of(analyzed[k].Flag_Balancing_Active)
          /\ table[k].CellVoltage[c] >= table[k].Voltage_Min + Threshold(k)
          /\ c \in analyzed[k].Extra
          /\ MismatchReasons(analyzed[k], TRUE, TRUE) # <<>>

----------------------------------------------------------------------------
(* analyze_fast on rows that differ in the readings of two temperature     *)
(* sensors only; everything else asks for balancing.                       *)

TempInputs ==
    {[FullRow(0) EXCEPT !.IntTherm = <<t1, t2>>] :
        t1 \in {25, TEMP_LIMIT, TEMP_LIMIT + 1}, t2 \in {0, 2 * TEMP_LIMIT}}

InitTemp ==
    /\ AnalysisStart /\ inputs = TempInputs
    /\ PassFailIdle /\ TimelineIdle /\ ReaderIdle /\ CallIdle

SpecTemp == InitTemp /\ [][NextAnalysis]_vars

\* a sensor that is not dead reads more than 95 on row k of the table
LiveSensorAbove(k) ==
    \E x \in DOMAIN table[k].IntTherm :
        /\ x \notin find_dead_therms(table)
        /\ table[k].IntTherm[x] > 95

\* C33: on rows that ask for balancing in everything but the temperature,
\* the row is required if and only if no sensor that is not dead reads more
\* than 95 on that row: a reading of exactly 95 does not block, a reading of
\* a dead sensor does not block whatever it is, and a blocked row is not
\* required and has no required cells.
C33_TempBlock ==
    apc = "analyzed" =>
        \A k \in 1..Len(analyzed) :
            /\ Threshold(k) # None
            /\ table[k].Voltage_Min >= table[k].Balancing_Limit
            /\ table[k].Voltage_Max - table[k].Voltage_Min >= Threshold(k)
            /\ temp_block_of(table[k], find_dead_therms(table)) <=> LiveSensorAbove(k)
            /\ analyzed[k].Balancing_Required = "NO" <=> LiveSensorAbove(k)
            /\ LiveSensorAbove(k) => analyzed[k].Required_Cells = {}

\* a row at exactly 95 that stays required, a row at 96 that is blocked, and
\* a row on which a dead sensor reads 190 and that stays required
C33_Witness ==
    /\ apc = "analyzed"
    /\ 2 \in find_dead_therms(table)
    /\ 1 \notin find_dead_therms(table)
    /\ \E k \in 1..Len(analyzed) :
          table[k].IntTherm[1] = 95 /\ analyzed[k].Balancing_Required = "YES"
    /\ \E k \in 1..Len(analyzed) :
          table[k].IntTherm[1] = 96 /\ analyzed[k].Balancing_Required = "NO"
    /\ \E k \in 1..Len(analyzed) :
          /\ table[k].IntTherm[2] = 190 /\ table[k].IntTherm[1] <= 95
          /\ analyzed[k].Balancing_Required = "YES"

----------------------------------------------------------------------------
\* the bound of the class of row a, in ticks
BoundOf(a) == IF Class(a) = "REST" THEN 12500 ELSE 9000

\* C34: the duration tested when the segment of rows a..b is closed is the
\* time of its last row b minus the time of its first row a: the segment
\* leaves a "too long" reason if and only if that difference is more than
\* the bound of its class, the reason prints that difference, and the time
\* from row b to the row that closed the segment is not counted; a segment
\* of one row leaves none.
C34_MeasuredDuration ==
    \A a \in Rows : \A b \in Rows :
        Closed(a, b) =>
            /\ DurationTexts(b) # {} <=> T(b) - T(a) > BoundOf(a)
            /\ \A text \in DurationTexts(b) : text.num = (T(b) - T(a) + 5) \div 10
            /\ a = b => DurationTexts(b) = {}

\* a segment of one ODD row closed by a row of another class 5 s later: no
\* reason, though the next row is far beyond the bound
C34_Witness ==
    \E b \in Rows :
        /\ SegmentFrom(b, b) /\ ClosedByClass(b)
        /\ Class(b) = "ODD"
        /\ T(b + 1) - T(b) = 50000
        /\ DurationTexts(b) = {}

----------------------------------------------------------------------------
\* the number of "too long" reasons in the remark of row k
DurationCount(k) ==
    Cardinality({n \in 1..Len(Remark(k)) : Remark(k)[n].kind \in OnKinds \cup RestKinds})

\* C35: at every point of the evaluation a row carries a "too long" reason
\* only if it is the last row of a segment that has been closed (by the next
\* row's class or gap, or by the end of the trace), and then one only: the
\* rows of the segment that is still open, and the rows of a segment before
\* its last, carry none however long the segment has lasted.
C35_DurationOnlyAtClose ==
    \A k \in Rows :
        /\ DurationCount(k) <= 1
        /\ DurationCount(k) = 1 => \E a \in Rows : Closed(a, k)

\* the loop is inside an ODD segment that has lasted 5 s and no row of it
\* carries a reason yet
C35_Witness ==
    /\ pc = "loop"
    /\ \E a \in Rows :
          /\ SegmentFrom(a, NRows - 1)
          /\ st.current_seg_state = "ODD"
          /\ T(NRows - 1) - T(a) >= 50000
          /\ \A k \in a..(NRows - 1) : DurationCount(k) = 0

----------------------------------------------------------------------------
\* C36: once a row of a Required-and-not-flag run carries the activation
\* reason, every later row of that run is FAIL with it; once a row of a
\* mismatch with one description carries a "Cell mismatch" reason, every
\* later row of that mismatch whose grace is exceeded is FAIL with the
\* reason of its own grace and that description.
C36_PersistentViolations ==
    \A s \in Rows : \A j \in Rows : \A k \in Rows :
        (s <= j /\ j < k) =>
            /\ (PendingRun(s, k) /\ HasText(j, ActivationText)) =>
                  /\ PassFail(k) = "FAIL"
                  /\ HasText(k, ActivationText)
            /\ ( /\ MismatchRun(s, k)
                 /\ HasKind(j, MismatchKinds)
                 /\ T(k) - T(s) > GraceOf(k) ) =>
                  /\ PassFail(k) = "FAIL"
                  /\ HasText(k, Text("Cell mismatch >", GracePrinted(k), Description(s)))

\* two rows in a row that carry the activation reason and the reason of the
\* same mismatch, after the row that started both
C36_Witness ==
    \E s \in Rows : \E j \in Rows : \E k \in Rows :
        /\ s < j /\ j < k
        /\ PendingRun(s, k) /\ MismatchRun(s, k)
        /\ HasText(j, ActivationText) /\ HasText(k, ActivationText)
        /\ HasText(j, Text("Cell mismatch >", 4, Description(s)))
        /\ HasText(k, Text("Cell mismatch >", 4, Description(s)))
        /\ ~HasKind(s, MismatchKinds) /\ ~HasText(s, ActivationText)

----------------------------------------------------------------------------
\* C37: while the loop runs, after row i (the last row read) a segment is
\* open if and only if row i is classified; then its class is the class of
\* row i, its start index s is at most i, its start time is the time of row
\* s, rows s..i all have that class and no two consecutive rows of s..i are
\* more than 5 s apart; when no segment is open its class, start index and
\* start time are unset and both parity accumulators are false.
C37_SegmentStateInvariant ==
    (pc = "loop" /\ NRows > 0) =>
        LET i == NRows - 1
            s == st.current_seg_start_idx
        IN  /\ st.current_seg_state # "None" <=> Class(i) # "None"
            /\ IF st.current_seg_state # "None"
               THEN /\ st.current_seg_state = Class(i)
                    /\ s # None /\ 0 <= s /\ s <= i
                    /\ st.current_seg_start_time = T(s)
                    /\ \A k \in s..i : Class(k) = Class(i)
                    /\ \A k \in (s + 1)..i : ~GapBefore(k)
               ELSE /\ s = None
                    /\ st.current_seg_start_time = None
                    /\ ~st.seg_req_odd /\ ~st.seg_req_even

\* after the third row the open segment is the one of two rows that started
\* after a gap, the row before the gap being of the same class
C37_Witness ==
    /\ pc = "loop" /\ NRows = 3
    /\ st.current_seg_start_idx = 1
    /\ GapBefore(1) /\ Class(0) = Class(1)
    /\ T(2) > T(1)

----------------------------------------------------------------------------
\* the kinds of the violation reasons
ViolationKinds ==
    {ActivationText.kind, ParityMixText.kind} \cup MismatchKinds \cup OnKinds \cup RestKinds

\* no rule applies to row k: not waiting for the flag, no mismatch, no parity
\* mix, and not in a segment
Untouched(k) ==
    /\ ~Pending(k)
    /\ Description(k) = <<>>
    /\ ~MixRow(k)
    /\ Class(k) = "None"

\* C38: at every point of the evaluation and in the final table, every row
\* read has a verdict: PASS if and only if its remark is exactly "OK", FAIL
\* if and only if its remark is a non-empty list of violation reasons; the
\* two lists have one entry per row, and a row to which no rule applies is
\* PASS with "OK".
C38_VerdictRemarkConsistency ==
    /\ Len(st.passfail) = NRows /\ Len(st.remark) = NRows
    /\ \A k \in Rows :
          /\ PassFail(k) \in {"PASS", "FAIL"}
          /\ PassFail(k) = "PASS" <=> Remark(k) = <<OK>>
          /\ PassFail(k) = "FAIL" <=>
                /\ Len(Remark(k)) >= 1
                /\ \A n \in 1..Len(Remark(k)) : Remark(k)[n].kind \in ViolationKinds
          /\ Untouched(k) => PassFail(k) = "PASS"

\* a final table with a row that is FAIL for two reasons, a row that is FAIL
\* for one and a row that is PASS
C38_Witness ==
    /\ pc = "done"
    /\ \E k \in Rows : PassFail(k) = "FAIL" /\ Len(Remark(k)) = 2
    /\ \E k \in Rows : PassFail(k) = "FAIL" /\ Len(Remark(k)) = 1
    /\ \E k \in Rows : PassFail(k) = "PASS" /\ Remark(k) = <<OK>>

----------------------------------------------------------------------------
\* the number of reasons of row k whose kind is in kinds
KindCount(k, kinds) ==
    Cardinality({n \in 1..Len(Remark(k)) : Remark(k)[n].kind \in kinds})

\* C39: at every point of the evaluation a row carries at most one reason of
\* each kind (activation latency, cell mismatch, parity mix, segment
\* duration) and no reason twice; a row that carries its segment-duration
\* reason lies before the start of the open segment, so that no later close
\* marks it again; and a row with the activation reason has the flag not
\* active and carries neither the parity-mix nor a segment-duration reason,
\* which are on rows with the flag active.
C39_ViolationKindsPerRow ==
    \A k \in Rows :
        /\ KindCount(k, {ActivationText.kind}) <= 1
        /\ KindCount(k, MismatchKinds) <= 1
        /\ KindCount(k, {ParityMixText.kind}) <= 1
        /\ KindCount(k, OnKinds \cup RestKinds) <= 1
        /\ \A n \in 1..Len(Remark(k)) : \A m \in 1..Len(Remark(k)) :
              Remark(k)[n] = Remark(k)[m] => n = m
        /\ KindCount(k, OnKinds \cup RestKinds) = 1 =>
              (st.current_seg_start_idx = None \/ st.current_seg_start_idx > k)
        /\ HasText(k, ActivationText) =>
              /\ ~Flag(k)
              /\ ~HasText(k, ParityMixText)
              /\ KindCount(k, OnKinds \cup RestKinds) = 0
        /\ (HasText(k, ParityMixText) \/ KindCount(k, OnKinds \cup RestKinds) = 1) => Flag(k)

\* a final table with a row that carries two reasons of different kinds, the
\* activation reason and a mismatch reason, once each
C39_Witness ==
    /\ pc = "done"
    /\ \E k \in Rows :
          /\ HasText(k, ActivationText) /\ KindCount(k, MismatchKinds) = 1
          /\ Len(Remark(k)) = 2

====
